---------------------------- MODULE Spec2Model ----------------------------
(***************************************************************************)
(* Hartley action server: the action resolution and execution pipeline.   *)
(*                                                                         *)
(* The repository holds four iterations of the same program:               *)
(*   "legacy"  src/unnamed/part_000 lines 1-293   (python3 only)           *)
(*   "prefix"  src/unnamed/part_000 lines 295-789 (py/sh directives,       *)
(*             extractValidJSON)                                           *)
(*   "marker"  src/unnamed/part_001               ({"result" marker scan)  *)
(*   "main"    src/hartley-main.go                (systemPrompt.txt)       *)
(* The variable variant says which iteration is running.                   *)
(*                                                                         *)
(* Text is modelled as a sequence of lexemes; the bytes are the            *)
(* concatenation of the lexemes.  Action strings are sequences of          *)
(* one-character strings.                                                  *)
(***************************************************************************)
EXTENDS Naturals, Sequences, FiniteSets, TLC

VARIABLES
    variant,    \* which iteration of the program is running
    actions,    \* the registered-action table (global `actions`)
    pc,         \* position of the handler
    req,        \* the request being handled
    route,      \* which branch actionHandler took
    payload,    \* payload handed to the branch (directive payload or query)
    rpArgs,     \* runPython: args
    rpIdx,      \* runPython: index of the next candidate
    rpOut,      \* runPython: out
    rpErr,      \* runPython: err
    rpLog,      \* runPython: the processes started, in order, with outcomes
    resp,       \* actionHandler: resp
    status,     \* HTTP status of the response
    bodies,     \* the response bodies written (jsonResponse calls)
    audits,     \* the INSERTs attempted by logToDB, with their outcome
    remoteCalls,\* number of http.Post calls to the generation service
    gbody,      \* body read from the generation service
    files,      \* scratch files present in the temporary directory
    tmpName,    \* tmpFile.Name() of this request, or NoFile
    fatal,      \* the process was ended by log.Fatalf
    trace,      \* the stages the request went through, in order
    exOut,      \* extractValidJSON: the output bytes given
    exObj,      \* the object exOut was rendered from, or NoObject
    exRes,      \* extractValidJSON: what it returned, or NotCalled
    units       \* the requests being handled concurrently, each with its locals

vars == <<variant, actions, pc, req, route, payload, rpArgs, rpIdx, rpOut,
          rpErr, rpLog, resp, status, bodies, audits, remoteCalls, gbody,
          files, tmpName, fatal, trace, exOut, exObj, exRes, units>>

-----------------------------------------------------------------------------
(* Bounds of the model *)

MaxLines == 3
MaxTok == 3
MaxTail == 3

-----------------------------------------------------------------------------
(* Text helpers *)

\* encoding/json scanner isSpace: ' ', '\t', '\r', '\n'
JSONSpace == {" ", "\t", "\r", "\n"}

\* unicode.IsSpace on the characters the model uses (strings.TrimSpace)
UnicodeSpace == {" ", "\t", "\r", "\n", "\f"}

RECURSIVE TrimLeft(_)
TrimLeft(s) ==
    IF s # <<>> /\ Head(s) \in UnicodeSpace THEN TrimLeft(Tail(s)) ELSE s

RECURSIVE TrimRight(_)
TrimRight(s) ==
    IF s # <<>> /\ s[Len(s)] \in UnicodeSpace
    THEN TrimRight(SubSeq(s, 1, Len(s) - 1))
    ELSE s

\* strings.TrimSpace
TrimSpace(s) == TrimRight(TrimLeft(s))

\* strings.Split(s, "\n"): the lines of s; one empty line for the empty text
RECURSIVE SplitFrom(_, _, _)
SplitFrom(s, i, cur) ==
    IF i > Len(s) THEN <<cur>>
    ELSE IF s[i] = "\n" THEN <<cur>> \o SplitFrom(s, i + 1, <<>>)
    ELSE SplitFrom(s, i + 1, Append(cur, s[i]))

SplitLines(s) == SplitFrom(s, 1, <<>>)

\* strings.Contains(string(out), "Python was not found")
Sentinel == "Python was not found"

ContainsSentinel(out) == \E i \in 1..Len(out) : out[i] = Sentinel

-----------------------------------------------------------------------------
(* Go values *)

\* a map[string]interface{}: nil, or a mapping from keys to values.  A value
\* is kept as its compact JSON text.
NilMap == [isNil |-> TRUE, kv |-> <<>>]

MakeMap(f) == [isNil |-> FALSE, kv |-> f]

Put(f, k, v) == [x \in (DOMAIN f) \cup {k} |-> IF x = k THEN v ELSE f[x]]

\* the keys of the model in the order json.Marshal writes them (sorted)
KeyOrder == <<"\"candidates\"", "\"command\"", "\"error\"", "\"k\"", "\"output\"",
              "\"raw_output\"", "\"raw_response\"", "\"result\"">>

RECURSIVE MarshalFrom(_, _, _)
MarshalFrom(f, i, first) ==
    IF i > Len(KeyOrder) THEN <<>>
    ELSE IF KeyOrder[i] \in DOMAIN f
         THEN (IF first THEN <<>> ELSE <<",">>)
              \o <<KeyOrder[i], ":">> \o f[KeyOrder[i]]
              \o MarshalFrom(f, i + 1, FALSE)
         ELSE MarshalFrom(f, i + 1, first)

\* json.Marshal of a map[string]interface{}: null for the nil map, else the
\* object with its keys sorted, without whitespace
jsonMarshal(m) ==
    IF m.isNil THEN <<"null">>
    ELSE <<"{">> \o MarshalFrom(m.kv, 1, TRUE) \o <<"}">>

-----------------------------------------------------------------------------
(* encoding/json decoding, on the lexemes of the model *)

DigitLex == {"1", "42"}

StringLex == {"\"k\"", "\"result\"", "\"command\""}

RECURSIVE SkipSpace(_, _)
SkipSpace(s, i) ==
    IF i <= Len(s) /\ s[i] \in JSONSpace THEN SkipSpace(s, i + 1) ELSE i

RECURSIVE DigitsEnd(_, _)
DigitsEnd(s, i) ==
    IF i <= Len(s) /\ s[i] \in DigitLex THEN DigitsEnd(s, i + 1) ELSE i

NoParse == [ok |-> FALSE, next |-> 0, kind |-> "none", kv |-> <<>>, text |-> <<>>]

Parsed(n, k, f, t) == [ok |-> TRUE, next |-> n, kind |-> k, kv |-> f, text |-> t]

\* one JSON value starting at s[i]: where it ends, what it is, and (for an
\* object) its members, the last of two equal keys winning
RECURSIVE scanValue(_, _), scanMembers(_, _, _)
scanValue(s, i) ==
    IF i > Len(s) THEN NoParse
    ELSE IF s[i] = "null" THEN Parsed(i + 1, "null", <<>>, <<"null">>)
    ELSE IF s[i] \in DigitLex
         THEN Parsed(DigitsEnd(s, i), "number", <<>>,
                     SubSeq(s, i, DigitsEnd(s, i) - 1))
    ELSE IF s[i] \in StringLex THEN Parsed(i + 1, "string", <<>>, <<s[i]>>)
    ELSE IF s[i] = "{"
         THEN LET j == SkipSpace(s, i + 1)
              IN  IF j <= Len(s) /\ s[j] = "}"
                  THEN Parsed(j + 1, "object", <<>>, <<"{", "}">>)
                  ELSE scanMembers(s, j, <<>>)
    ELSE NoParse

scanMembers(s, i, acc) ==
    IF i > Len(s) \/ s[i] \notin StringLex THEN NoParse
    ELSE LET c == SkipSpace(s, i + 1)
         IN  IF c > Len(s) \/ s[c] # ":" THEN NoParse
             ELSE LET val == scanValue(s, SkipSpace(s, c + 1))
                  IN  IF ~val.ok THEN NoParse
                      ELSE LET e    == SkipSpace(s, val.next)
                               acc2 == Put(acc, s[i], val.text)
                           IN  IF e > Len(s) THEN NoParse
                               ELSE IF s[e] = "}"
                                    THEN Parsed(e + 1, "object", acc2,
                                                jsonMarshal(MakeMap(acc2)))
                               ELSE IF s[e] = ","
                                    THEN scanMembers(s, SkipSpace(s, e + 1), acc2)
                               ELSE NoParse

\* the whole of data is one JSON value between optional whitespace
scanWhole(data) ==
    LET v == scanValue(data, SkipSpace(data, 1))
    IN  IF v.ok /\ SkipSpace(data, v.next) > Len(data) THEN v ELSE NoParse

Merge(f, g) == [x \in (DOMAIN f) \cup (DOMAIN g) |->
                   IF x \in DOMAIN g THEN g[x] ELSE f[x]]

\* json.Unmarshal(data, &m) for m a map[string]interface{}: invalid text is
\* a syntax error and leaves m alone; null sets m to nil and is no error; an
\* object is stored into m (allocating it when nil); any other value is a
\* type error and leaves m alone
jsonUnmarshal(data, m) ==
    LET v == scanWhole(data)
    IN  IF ~v.ok THEN [err |-> "SyntaxError", val |-> m]
        ELSE IF v.kind = "null" THEN [err |-> "nil", val |-> NilMap]
        ELSE IF v.kind = "object"
             THEN [err |-> "nil", val |-> MakeMap(Merge(m.kv, v.kv))]
        ELSE [err |-> "UnmarshalTypeError", val |-> m]


-----------------------------------------------------------------------------
(* Output extractor (prefix iteration) *)

NotFoundErr == "no valid JSON found in output"

\* the loop of extractValidJSON, from line i down to line 1; tried lists the
\* indices of the lines handed to json.Unmarshal
RECURSIVE scanLines(_, _, _, _)
scanLines(lines, i, result, tried) ==
    IF i < 1
    THEN [result |-> NilMap, err |-> NotFoundErr, tried |-> tried]
    ELSE LET line == TrimSpace(lines[i])
         IN  IF line = <<>> THEN scanLines(lines, i - 1, result, tried)
             ELSE LET r == jsonUnmarshal(line, result)
                  IN  IF r.err = "nil"
                      THEN [result |-> r.val, err |-> "nil",
                            tried |-> Append(tried, i)]
                      ELSE scanLines(lines, i - 1, r.val, Append(tried, i))

\* extractValidJSON with a bug: the whole output is not tried first
extractLinesOnly(output) ==
    LET lines == SplitLines(output)
    IN  scanLines(lines, Len(lines), NilMap, <<>>)

extractValidJSON(output) ==
    LET whole == jsonUnmarshal(output, NilMap)
        lines == SplitLines(output)
    IN  IF whole.err = "nil"
        THEN [result |-> whole.val, err |-> "nil", tried |-> <<>>]
        ELSE scanLines(lines, Len(lines), whole.val, <<>>)

-----------------------------------------------------------------------------
(* Action classifier (prefix iteration) *)

\* parsePrefix with a bug: the payload is not trimmed
parsePrefixNoTrim(input) ==
    IF Len(input) >= 3 /\ input[3] = " "
       /\ (SubSeq(input, 1, 2) = <<"p", "y">> \/ SubSeq(input, 1, 2) = <<"s", "h">>)
    THEN <<SubSeq(input, 1, 2), SubSeq(input, 4, Len(input))>>
    ELSE <<<<>>, input>>

\* parsePrefix with a bug: the third character is not tested
parsePrefixNoSpaceCheck(input) ==
    IF Len(input) >= 3
       /\ (SubSeq(input, 1, 2) = <<"p", "y">> \/ SubSeq(input, 1, 2) = <<"s", "h">>)
    THEN <<SubSeq(input, 1, 2), TrimSpace(SubSeq(input, 4, Len(input)))>>
    ELSE <<<<>>, input>>

\* parsePrefix(input): <<prefix, payload>>; input[2] of the code is input[3]
\* here, input[:2] is SubSeq(input, 1, 2) and input[3:] starts at index 4
parsePrefix(input) ==
    IF Len(input) >= 3 /\ input[3] = " "
       /\ (SubSeq(input, 1, 2) = <<"p", "y">> \/ SubSeq(input, 1, 2) = <<"s", "h">>)
    THEN <<SubSeq(input, 1, 2), TrimSpace(SubSeq(input, 4, Len(input)))>>
    ELSE <<<<>>, input>>


-----------------------------------------------------------------------------
(* Interpreter runner *)

\* the interpreters tried, in order; the legacy iteration calls
\* exec.Command("python3", ...) directly and has no fallback
Candidates ==
    IF variant = "legacy" THEN <<"python3">> ELSE <<"python3", "python", "py">>

NoError == [kind |-> "nil", proc |-> ""]

\* IsNotFound with a bug: any failure moves on to the next candidate
IsNotFoundAnyError(err, out) == err.kind # "nil"

\* the condition under which runPython goes on to the next candidate:
\* err != nil && (errors.Is(err, exec.ErrNotFound) ||
\*                strings.Contains(string(out), "Python was not found"))
IsNotFound(err, out) ==
    err.kind # "nil" /\ (err.kind = "ErrNotFound" \/ ContainsSentinel(out))

\* runPythonResult with a bug: the fallback calls assign err only
runPythonResultFirstOut(log) ==
    [out |-> log[1].out, err |-> log[Len(log)].err]

\* what runPython returns after the attempts of log: out and err are both
\* assigned by each CombinedOutput call, so they are those of the last one
runPythonResult(log) ==
    [out |-> log[Len(log)].out, err |-> log[Len(log)].err]


-----------------------------------------------------------------------------
(* Result objects built by the handlers *)

\* string(output): a Go string holding the bytes
StringOf(bytes) == <<"string(">> \o bytes \o <<")">>

\* fmt.Sprintf(format, err)
Sprintf(format, err) == <<format, err.kind, err.proc>>

ErrMap(msg) == MakeMap(("\"error\"" :> msg))

ErrMapWith(msg, key, val) == MakeMap(("\"error\"" :> msg) @@ (key :> val))

\* the characters json.Marshal escapes inside a string, among those of the model
EscapeChar(c) == IF c = "\t" THEN <<"\\", "t">> ELSE <<c>>

RECURSIVE EscapeChars(_)
EscapeChars(cs) ==
    IF cs = <<>> THEN <<>> ELSE EscapeChar(Head(cs)) \o EscapeChars(Tail(cs))

\* json.Marshal of a Go string
jsonString(cs) == <<"\"">> \o EscapeChars(cs) \o <<"\"">>

\* strings.LastIndex in place of strings.Index: the last marker, 0 for -1
RECURSIVE MarkerIndexLast(_, _)
MarkerIndexLast(out, i) ==
    IF i + 1 > Len(out) THEN 0
    ELSE LET later == MarkerIndexLast(out, i + 1)
         IN  IF later > 0 THEN later
             ELSE IF out[i] = "{" /\ out[i + 1] = "\"result\"" THEN i
             ELSE 0

\* strings.Index(outputStr, `{"result"`), 0 for -1
RECURSIVE MarkerIndex(_, _)
MarkerIndex(out, i) ==
    IF i + 1 > Len(out) THEN 0
    ELSE IF out[i] = "{" /\ out[i + 1] = "\"result\"" THEN i
    ELSE MarkerIndex(out, i + 1)

\* json.Marshal of a []GeminiPart: the objects {"text": ...}, separated by commas
RECURSIVE PartsText(_)
PartsText(parts) ==
    IF parts = <<>> THEN <<>>
    ELSE <<"{", "\"text\"", ":">> \o jsonString(<<Head(parts)>>) \o <<"}">>
         \o (IF Tail(parts) = <<>> THEN <<>> ELSE <<",">>)
         \o PartsText(Tail(parts))

\* json.Marshal of a GeminiCandidate decoded from an answer that gave the
\* parts and left role and finishReason empty
CandidateText(cand) ==
    <<"{", "\"content\"", ":", "{", "\"parts\"", ":", "[">> \o PartsText(cand.parts)
    \o <<"]", ",", "\"role\"", ":">> \o jsonString(<<>>)
    \o <<"}", ",", "\"finishReason\"", ":">> \o jsonString(<<>>) \o <<"}">>

\* json.Marshal of a []GeminiCandidate, without the brackets
RECURSIVE CandidatesText(_)
CandidatesText(cands) ==
    IF cands = <<>> THEN <<>>
    ELSE CandidateText(Head(cands))
         \o (IF Tail(cands) = <<>> THEN <<>> ELSE <<",">>)
         \o CandidatesText(Tail(cands))

\* geminiRespToMap: the envelope marshalled and decoded into a generic map
geminiRespToMap(geminiResp) ==
    MakeMap(("\"candidates\"" :>
                (<<"[">> \o CandidatesText(geminiResp.candidates) \o <<"]">>)))

\* registeredResult with a bug: the output is decoded before err is looked at
registeredResultDecodeFirst(out, err) ==
    LET u == jsonUnmarshal(out, NilMap)
    IN  IF u.err = "nil" THEN u.val
        ELSE IF err.kind # "nil"
        THEN ErrMapWith(Sprintf("\"Error executing action: %v\"", err),
                        "\"output\"", StringOf(out))
        ELSE ErrMapWith(<<"\"Error parsing action output\"">>,
                        "\"raw_output\"", StringOf(out))

\* registered action, after runPython (legacy, prefix and main iterations)
registeredResult(out, err) ==
    IF err.kind # "nil"
    THEN ErrMapWith(Sprintf("\"Error executing action: %v\"", err),
                    "\"output\"", StringOf(out))
    ELSE LET u == jsonUnmarshal(out, NilMap)
         IN  IF u.err # "nil"
             THEN ErrMapWith(<<"\"Error parsing action output\"">>,
                             "\"raw_output\"", StringOf(out))
             ELSE u.val

\* registered action, after runPython (marker iteration)
markerRegisteredResult(out, err) ==
    IF err.kind # "nil"
    THEN ErrMapWith(Sprintf("\"Error executing action: %v\"", err),
                    "\"output\"", StringOf(out))
    ELSE LET jsonStartIndex == MarkerIndex(out, 1)
         IN  IF jsonStartIndex = 0
             THEN ErrMap(<<"\"Valid JSON not found in output\"">>)
             ELSE LET u == jsonUnmarshal(SubSeq(out, jsonStartIndex, Len(out)), NilMap)
                  IN  IF u.err # "nil"
                      THEN ErrMap(<<"\"Error parsing extracted JSON\"">>)
                      ELSE u.val

\* handleShellCommand, after runPython
shellResult(out, err) ==
    IF err.kind # "nil"
    THEN ErrMapWith(Sprintf("\"Error executing shell command: %v\"", err),
                    "\"output\"", StringOf(out))
    ELSE LET u == jsonUnmarshal(out, NilMap)
         IN  IF u.err = "nil" THEN u.val
             ELSE LET x == extractValidJSON(out)
                  IN  IF x.err # "nil"
                      THEN ErrMapWith(<<"\"Error parsing shell command output\"">>,
                                      "\"raw_output\"", StringOf(out))
                      ELSE x.result

\* generated code, after the interpreter (legacy iteration)
legacyGeneratedResult(out, err) ==
    IF err.kind # "nil"
    THEN ErrMapWith(Sprintf("\"Error executing generated code: %v\"", err),
                    "\"output\"", StringOf(out))
    ELSE LET u == jsonUnmarshal(out, NilMap)
         IN  IF u.err # "nil"
             THEN ErrMapWith(<<"\"Error parsing output from generated code\"">>,
                             "\"raw_output\"", StringOf(out))
             ELSE u.val

\* generated code, after runPython (main iteration)
mainGeneratedResult(out, err, geminiResp) ==
    IF err.kind # "nil" THEN geminiRespToMap(geminiResp)
    ELSE LET u == jsonUnmarshal(out, NilMap)
         IN  IF u.err # "nil" THEN geminiRespToMap(geminiResp) ELSE u.val

\* generated code, after runPython (marker iteration)
markerGeneratedResult(out, err, geminiResp) ==
    IF err.kind # "nil" THEN geminiRespToMap(geminiResp)
    ELSE LET jsonStartIndex == MarkerIndex(out, 1)
         IN  IF jsonStartIndex = 0 THEN geminiRespToMap(geminiResp)
             ELSE LET u == jsonUnmarshal(SubSeq(out, jsonStartIndex, Len(out)), NilMap)
                  IN  IF u.err # "nil" THEN geminiRespToMap(geminiResp) ELSE u.val

\* handlePythonCommand and handleConversational, after runPython
prefixGeneratedResult(out, err, geminiResp) ==
    IF err.kind # "nil" THEN geminiRespToMap(geminiResp)
    ELSE LET u == jsonUnmarshal(out, NilMap)
         IN  IF u.err = "nil" THEN u.val
             ELSE LET x == extractValidJSON(out)
                  IN  IF x.err # "nil" THEN geminiRespToMap(geminiResp)
                      ELSE x.result


-----------------------------------------------------------------------------
(* The environment: requests, the action table, processes, the remote service *)

Variants == {"legacy", "prefix", "marker", "main"}

NameGet == <<"g", "e", "t">>

ActShX == <<"s", "h", " ", "x">>

ActPyX == <<"p", "y", " ", "x", " ">>

ActPyx == <<"p", "y", "x">>

ActFree == <<"h", "i">>

\* the action strings of the requests of Spec
SpecActions == {NameGet, ActShX, ActPyX, ActPyx, ActFree}

\* the params of the requests of Spec: absent, or {"k": 1}
SpecParams == {NilMap, MakeMap(("\"k\"" :> <<"1">>))}

NoRequest == [Method |-> "", BodyOK |-> FALSE, Action |-> <<>>, Params |-> NilMap]

Requests ==
    {[Method |-> "GET", BodyOK |-> TRUE, Action |-> NameGet, Params |-> NilMap],
     [Method |-> "POST", BodyOK |-> FALSE, Action |-> <<>>, Params |-> NilMap]}
    \cup {[Method |-> "POST", BodyOK |-> TRUE, Action |-> a, Params |-> p] :
            a \in SpecActions, p \in SpecParams}

\* actions/actions.json as loaded by main: a table with one entry, and a
\* table with a directive-like name and a duplicated name
Tables ==
    {<<[Name |-> NameGet, Script |-> "s1.py", Function |-> "f1"]>>,
     <<[Name |-> ActShX, Script |-> "s2.py", Function |-> "f2"],
       [Name |-> NameGet, Script |-> "s1.py", Function |-> "f1"],
       [Name |-> NameGet, Script |-> "s3.py", Function |-> "f3"]>>}

\* what a process prints (stdout and stderr combined)
ProcOutputs ==
    {<<>>,
     <<"{", "\"result\"", ":", " ", "42", "}", "\n">>,
     <<"progress line", "\n", "{", "\"result\"", ":", " ", "42", "}", "\n">>,
     <<"{", "\"k\"", ":", "1", "}", "\n">>,
     <<"null", "\n">>,
     <<"42", "\n">>,
     <<"progress line", "\n">>,
     <<Sentinel, "\n">>}

\* exec.Command(cand, args...).CombinedOutput(): the binary is missing
\* (exec.ErrNotFound), it cannot be started for another reason, it is the
\* launcher stub that prints the sentinel and fails, or it is an interpreter
\* that ran the script, which exited zero or not
ProcOutcomes(cand) ==
    {[kind |-> "missing", out |-> <<>>,
      err |-> [kind |-> "ErrNotFound", proc |-> cand]],
     [kind |-> "startfail", out |-> <<>>,
      err |-> [kind |-> "StartError", proc |-> cand]],
     [kind |-> "stub", out |-> <<Sentinel, "\n">>,
      err |-> [kind |-> "ExitError", proc |-> cand]]}
    \cup {[kind |-> "ran", out |-> t, err |-> NoError] : t \in ProcOutputs}
    \cup {[kind |-> "ran", out |-> t,
           err |-> [kind |-> "ExitError", proc |-> cand]] : t \in ProcOutputs}

\* the candidates of a GeminiResponse decoded from the body
Envelopes ==
    {<<>>,
     <<[parts |-> <<>>]>>,
     <<[parts |-> <<"code1">>]>>,
     <<[parts |-> <<"code1", "code2">>], [parts |-> <<"code3">>]>>}

NoBody == [decodable |-> FALSE, candidates |-> <<>>]

\* the bodies the generation service answers with: not JSON, or an envelope
Bodies == {NoBody} \cup {[decodable |-> TRUE, candidates |-> c] : c \in Envelopes}

\* string(body): the bytes read from the generation service
bodyText(b) ==
    IF b.decodable
    THEN <<"{", "\"candidates\"", ":", "[">> \o CandidatesText(b.candidates) \o <<"]", "}">>
    ELSE <<"not json">>

NoFile == "none"

ShellScript == "python/action_runner.py"

ShellFunction == "run_terminal_command"


-----------------------------------------------------------------------------
(* actionHandler, one request *)

cfgVars == <<variant, actions>>

runVars == <<rpArgs, rpIdx, rpOut, rpErr, rpLog>>

exVars == <<exOut, exObj, exRes>>

\* the loop over the table with a bug: no break, the last entry of that
\* name wins
RECURSIVE FindActionLast(_, _, _)
FindActionLast(tbl, name, i) ==
    IF i > Len(tbl) THEN 0
    ELSE LET later == FindActionLast(tbl, name, i + 1)
         IN  IF later > 0 THEN later
             ELSE IF tbl[i].Name = name THEN i ELSE 0

\* the loop over the table: index of the first entry of that name, 0 if none
RECURSIVE FindAction(_, _, _)
FindAction(tbl, name, i) ==
    IF i > Len(tbl) THEN 0
    ELSE IF tbl[i].Name = name THEN i
    ELSE FindAction(tbl, name, i + 1)

\* generatedCode with a bug: the last fragment of the first candidate
generatedCodeLastFragment(body) ==
    body.candidates[1].parts[Len(body.candidates[1].parts)]

\* the first fragment of the first candidate
generatedCode(body) == body.candidates[1].parts[1]

\* the emptiness test with a bug: the fragments of the first candidate are
\* not counted
IsEmptyEnvelopeCandidatesOnly(body) == Len(body.candidates) = 0

\* len(Candidates) == 0 || len(Candidates[0].Content.Parts) == 0
IsEmptyEnvelope(body) ==
    Len(body.candidates) = 0 \/ Len(body.candidates[1].parts) = 0

\* what the handlers answer when a step fails after a non-empty envelope:
\* the legacy iteration an error object, the later ones the envelope
scratchFailure(msg) ==
    IF variant = "legacy" THEN ErrMap(<<msg>>) ELSE geminiRespToMap(gbody)

\* os.Remove with a bug: the scratch file is left in place
osRemoveKeepsFile(fs, name) == fs

\* os.Remove(tmpFile.Name()), deferred by the function that created the file
osRemove(fs, name) == {f \in fs : f.name # name}

\* json.NewEncoder(w).Encode(data) of jsonResponse: the JSON text and a newline
jsonEncode(m) == jsonMarshal(m) \o <<"\n">>

\* Receive with a bug: a rejected request is logged before the return
ReceiveLogsRejected ==
    /\ pc = "idle"
    /\ \E r \in Requests :
         /\ req' = r
         /\ IF r.Method # "POST" \/ ~r.BodyOK
            THEN /\ status' = IF r.Method # "POST" THEN 405 ELSE 400
                 /\ bodies' = Append(bodies, jsonEncode(ErrMap(
                        IF r.Method # "POST" THEN <<"\"Method not allowed\"">>
                        ELSE <<"\"Invalid JSON\"">>)))
                 /\ audits' = Append(audits, [action |-> r.Action, request |-> <<>>,
                                              response |-> <<>>, ok |-> TRUE])
                 /\ trace' = trace \o <<"audit", "respond">>
                 /\ pc' = "done"
            ELSE /\ pc' = "dispatch"
                 /\ trace' = Append(trace, "decode")
                 /\ UNCHANGED <<status, bodies, audits>>
    /\ UNCHANGED <<cfgVars, route, payload, runVars, resp, remoteCalls,
                   gbody, files, tmpName, fatal, exVars, units>>

\* the method check and the decoding of the body
Receive ==
    /\ pc = "idle"
    /\ \E r \in Requests :
         /\ req' = r
         /\ IF r.Method # "POST"
            THEN /\ status' = 405
                 /\ bodies' = Append(bodies, jsonEncode(ErrMap(<<"\"Method not allowed\"">>)))
                 /\ trace' = Append(trace, "respond")
                 /\ pc' = "done"
            ELSE IF ~r.BodyOK
            THEN /\ status' = 400
                 /\ bodies' = Append(bodies, jsonEncode(ErrMap(<<"\"Invalid JSON\"">>)))
                 /\ trace' = Append(trace, "respond")
                 /\ pc' = "done"
            ELSE /\ pc' = "dispatch"
                 /\ trace' = Append(trace, "decode")
                 /\ UNCHANGED <<status, bodies>>
    /\ UNCHANGED <<cfgVars, route, payload, runVars, resp, audits, remoteCalls,
                   gbody, files, tmpName, fatal, exVars, units>>

\* registeredArgs with a bug: an empty object in place of the params
registeredArgsEmptyParams(act, params) ==
    <<<<act.Script>>, <<act.Function>>, <<"{", "}">>>>

\* the arguments of runPython for a registered action:
\* act.Script, act.Function, string(paramsJSON)
registeredArgs(act, params) ==
    <<<<act.Script>>, <<act.Function>>, jsonMarshal(params)>>

\* the arguments of runPython in handleShellCommand
shellArgs(command) ==
    <<<<ShellScript>>, <<ShellFunction>>,
      jsonMarshal(MakeMap(("\"command\"" :> jsonString(command))))>>

\* classify with a bug: the table is searched before the directive check
classifyRegistryFirst(action) ==
    LET pp  == IF variant = "prefix" THEN parsePrefix(action) ELSE <<<<>>, action>>
        idx == FindAction(actions, action, 1)
    IN  IF idx > 0 THEN [route |-> "registered", payload |-> <<>>, idx |-> idx]
        ELSE IF pp[1] = <<"p", "y">> THEN [route |-> "py", payload |-> pp[2], idx |-> 0]
        ELSE IF pp[1] = <<"s", "h">> THEN [route |-> "sh", payload |-> pp[2], idx |-> 0]
        ELSE [route |-> "freeform", payload |-> action, idx |-> 0]

\* the branch actionHandler takes for an action string: the directive check
\* (prefix iteration only), then the loop over the table, then generation
classify(action) ==
    LET pp  == IF variant = "prefix" THEN parsePrefix(action) ELSE <<<<>>, action>>
        idx == FindAction(actions, action, 1)
    IN  IF pp[1] = <<"p", "y">> THEN [route |-> "py", payload |-> pp[2], idx |-> 0]
        ELSE IF pp[1] = <<"s", "h">> THEN [route |-> "sh", payload |-> pp[2], idx |-> 0]
        ELSE IF idx > 0 THEN [route |-> "registered", payload |-> <<>>, idx |-> idx]
        ELSE [route |-> "freeform", payload |-> action, idx |-> 0]

\* actionHandler from the decoded request to the call of the branch
Dispatch ==
    /\ pc = "dispatch"
    /\ LET c == classify(req.Action)
       IN  /\ route' = c.route
           /\ payload' = c.payload
           /\ rpArgs' = IF c.route = "sh" THEN shellArgs(c.payload)
                        ELSE IF c.route = "registered"
                        THEN registeredArgs(actions[c.idx], req.Params)
                        ELSE rpArgs
           /\ pc' = IF c.route \in {"sh", "registered"} THEN "run"
                    ELSE IF variant = "main" THEN "read_prompt"
                    ELSE "gen_post"
    /\ trace' = Append(trace, "classify")
    /\ UNCHANGED <<cfgVars, req, rpIdx, rpOut, rpErr, rpLog, resp, status, bodies,
                   audits, remoteCalls, gbody, files, tmpName, fatal, exVars, units>>

\* one exec.Command(candidate, args...).CombinedOutput() of runPython and the
\* test that follows it
RunPythonExec ==
    /\ pc = "run"
    /\ \E o \in ProcOutcomes(Candidates[rpIdx]) :
         LET log == Append(rpLog, [cand |-> Candidates[rpIdx], args |-> rpArgs,
                                   kind |-> o.kind, out |-> o.out, err |-> o.err])
         IN  /\ rpLog' = log
             /\ IF rpIdx < Len(Candidates) /\ IsNotFound(o.err, o.out)
                THEN /\ rpIdx' = rpIdx + 1
                     /\ pc' = "run"
                     /\ UNCHANGED <<rpOut, rpErr>>
                ELSE /\ rpIdx' = rpIdx
                     /\ pc' = "ran"
                     /\ rpOut' = runPythonResult(log).out
                     /\ rpErr' = runPythonResult(log).err
    /\ trace' = Append(trace, "exec")
    /\ UNCHANGED <<cfgVars, req, route, payload, rpArgs, resp, status, bodies,
                   audits, remoteCalls, gbody, files, tmpName, fatal, exVars, units>>

\* the code after the interpreter returned: the result object of the branch,
\* and, in the prefix iteration, the deferred os.Remove of the handler that
\* created the scratch file
HandleOutput ==
    /\ pc = "ran"
    /\ resp' = IF route = "sh" THEN shellResult(rpOut, rpErr)
               ELSE IF route = "registered"
               THEN (IF variant = "marker"
                     THEN markerRegisteredResult(rpOut, rpErr)
                     ELSE registeredResult(rpOut, rpErr))
               ELSE IF variant = "legacy" THEN legacyGeneratedResult(rpOut, rpErr)
               ELSE IF variant = "main" THEN mainGeneratedResult(rpOut, rpErr, gbody)
               ELSE IF variant = "marker" THEN markerGeneratedResult(rpOut, rpErr, gbody)
               ELSE prefixGeneratedResult(rpOut, rpErr, gbody)
    /\ IF variant = "prefix" /\ tmpName # NoFile
       THEN /\ files' = osRemove(files, tmpName)
            /\ trace' = trace \o <<"extract", "remove">>
       ELSE /\ files' = files
            /\ trace' = Append(trace, "extract")
    /\ pc' = IF variant = "main" /\ route = "registered" THEN "read_prompt"
             ELSE "audit"
    /\ UNCHANGED <<cfgVars, req, route, payload, runVars, status, bodies, audits,
                   remoteCalls, gbody, tmpName, fatal, exVars, units>>

\* ioutil.ReadFile("systemPrompt.txt") of the main iteration, which follows the
\* registry loop; log.Fatalf when it fails
ReadPrompt ==
    /\ pc = "read_prompt"
    /\ \E ok \in BOOLEAN :
         IF ok
         THEN /\ pc' = IF route = "registered" THEN "audit" ELSE "gen_post"
              /\ trace' = Append(trace, "prompt")
              /\ UNCHANGED fatal
         ELSE /\ pc' = "exited"
              /\ fatal' = TRUE
              /\ trace' = Append(trace, "fatal")
    /\ UNCHANGED <<cfgVars, req, route, payload, runVars, resp, status, bodies,
                   audits, remoteCalls, gbody, files, tmpName, exVars, units>>

\* http.Post with a bug: a failed call is made again
GenPostRetries ==
    /\ pc = "gen_post"
    /\ remoteCalls' = remoteCalls + 1
    /\ \E ok \in BOOLEAN :
         IF ok THEN pc' = "gen_read" ELSE pc' = "gen_post"
    /\ trace' = Append(trace, "post")
    /\ UNCHANGED <<cfgVars, req, route, payload, runVars, resp, status, bodies, audits,
                   gbody, files, tmpName, fatal, exVars, units>>

\* http.Post to the generation service
GenPost ==
    /\ pc = "gen_post"
    /\ remoteCalls' = remoteCalls + 1
    /\ \E ok \in BOOLEAN :
         IF ok
         THEN pc' = "gen_read" /\ UNCHANGED resp
         ELSE pc' = "audit" /\ resp' = ErrMap(<<"\"Error calling Gemini API\"">>)
    /\ trace' = Append(trace, "post")
    /\ UNCHANGED <<cfgVars, req, route, payload, runVars, status, bodies, audits,
                   gbody, files, tmpName, fatal, exVars, units>>

\* ioutil.ReadAll of the answer, its decoding and the emptiness test
GenRead ==
    /\ pc = "gen_read"
    /\ \E readOK \in BOOLEAN, b \in Bodies :
         IF ~readOK
         THEN /\ b = NoBody
              /\ resp' = ErrMap(<<"\"Error reading Gemini response\"">>)
              /\ pc' = "audit"
              /\ UNCHANGED gbody
         ELSE /\ gbody' = b
              /\ IF ~b.decodable
                 THEN /\ resp' = ErrMapWith(<<"\"Error parsing Gemini response\"">>,
                                            "\"raw_response\"", StringOf(bodyText(b)))
                      /\ pc' = "audit"
                 ELSE IF IsEmptyEnvelope(b)
                 THEN /\ resp' = ErrMapWith(<<"\"No content generated by Gemini\"">>,
                                            "\"raw_response\"",
                                            StringOf(bodyText(b)))
                      /\ pc' = "audit"
                 ELSE /\ pc' = "tmp_create"
                      /\ UNCHANGED resp
    /\ trace' = Append(trace, "read")
    /\ UNCHANGED <<cfgVars, req, route, payload, runVars, status, bodies, audits,
                   remoteCalls, files, tmpName, fatal, exVars, units>>

\* ioutil.TempFile("", "hartley_generated_*.py")
TmpCreate ==
    /\ pc = "tmp_create"
    /\ \E ok \in BOOLEAN :
         IF ok
         THEN /\ tmpName' = "hartley_generated_1.py"
              /\ files' = files \cup {[name |-> "hartley_generated_1.py", text |-> ""]}
              /\ pc' = "tmp_write"
              /\ UNCHANGED resp
         ELSE /\ resp' = scratchFailure("\"Error creating temporary file for generated code\"")
              /\ pc' = "audit"
              /\ UNCHANGED <<tmpName, files>>
    /\ trace' = Append(trace, "create")
    /\ UNCHANGED <<cfgVars, req, route, payload, runVars, status, bodies, audits,
                   remoteCalls, gbody, fatal, exVars, units>>

\* TmpWrite with a bug: the interpreter is started before the code is written
TmpWriteStartsEarly ==
    /\ pc = "tmp_write"
    /\ rpArgs' = <<<<tmpName>>>>
    /\ pc' = "run"
    /\ trace' = Append(trace, "write")
    /\ UNCHANGED <<cfgVars, req, route, payload, rpIdx, rpOut, rpErr, rpLog, resp,
                   status, bodies, audits, remoteCalls, gbody, files, tmpName,
                   fatal, exVars, units>>

\* tmpFile.Write(generatedCode) and tmpFile.Close(); on failure the prefix
\* iteration returns from the handler, whose deferred os.Remove runs
TmpWrite ==
    /\ pc = "tmp_write"
    /\ \E ok \in BOOLEAN :
         IF ok
         THEN /\ files' = (files \ {f \in files : f.name = tmpName})
                          \cup {[name |-> tmpName, text |-> generatedCode(gbody)]}
              /\ rpArgs' = <<<<tmpName>>>>
              /\ pc' = "run"
              /\ trace' = Append(trace, "write")
              /\ UNCHANGED resp
         ELSE /\ resp' = scratchFailure("\"Error writing generated code to temporary file\"")
              /\ pc' = "audit"
              /\ UNCHANGED rpArgs
              /\ IF variant = "prefix"
                 THEN /\ files' = osRemove(files, tmpName)
                      /\ trace' = trace \o <<"write", "remove">>
                 ELSE /\ files' = files
                      /\ trace' = Append(trace, "write")
    /\ UNCHANGED <<cfgVars, req, route, payload, rpIdx, rpOut, rpErr, rpLog, status,
                   bodies, audits, remoteCalls, gbody, tmpName, fatal, exVars, units>>

\* json.Marshal of the ActionRequest
requestJSON(r) == <<"{", "\"action\"", ":">> \o jsonString(r.Action)
                  \o <<",", "\"params\"", ":">> \o jsonMarshal(r.Params) \o <<"}">>

\* logToDB with a bug: a failed INSERT replaces the result by an error object
AuditSurfacesFailure ==
    /\ pc = "audit"
    /\ \E ok \in BOOLEAN :
         /\ audits' = Append(audits, [action |-> req.Action, request |-> requestJSON(req),
                                      response |-> jsonMarshal(resp), ok |-> ok])
         /\ resp' = IF ok THEN resp ELSE ErrMap(<<"\"Error logging to database\"">>)
    /\ pc' = "respond"
    /\ trace' = Append(trace, "audit")
    /\ UNCHANGED <<cfgVars, req, route, payload, runVars, status, bodies,
                   remoteCalls, gbody, files, tmpName, fatal, exVars, units>>

\* logToDB(req.Action, req, resp): one INSERT, whose failure is only logged
Audit ==
    /\ pc = "audit"
    /\ \E ok \in BOOLEAN :
         audits' = Append(audits, [action |-> req.Action, request |-> requestJSON(req),
                                   response |-> jsonMarshal(resp), ok |-> ok])
    /\ pc' = "respond"
    /\ trace' = Append(trace, "audit")
    /\ UNCHANGED <<cfgVars, req, route, payload, runVars, resp, status, bodies,
                   remoteCalls, gbody, files, tmpName, fatal, exVars, units>>

\* jsonResponse(w, resp), the last statement of actionHandler; the handler
\* has returned when no os.Remove was deferred in it
Respond ==
    /\ pc = "respond"
    /\ status' = 200
    /\ bodies' = Append(bodies, jsonEncode(resp))
    /\ trace' = Append(trace, "respond")
    /\ pc' = IF variant # "prefix" /\ tmpName # NoFile THEN "returning" ELSE "done"
    /\ UNCHANGED <<cfgVars, req, route, payload, runVars, resp, audits, remoteCalls,
                   gbody, files, tmpName, fatal, exVars, units>>

\* the return of actionHandler in the legacy, marker and main iterations,
\* where the os.Remove deferred after ioutil.TempFile runs
Return ==
    /\ pc = "returning"
    /\ files' = osRemove(files, tmpName)
    /\ trace' = Append(trace, "remove")
    /\ pc' = "done"
    /\ UNCHANGED <<cfgVars, req, route, payload, runVars, resp, status, bodies,
                   audits, remoteCalls, gbody, tmpName, fatal, exVars, units>>

NoObject == [given |-> FALSE, m |-> NilMap]

NotCalled == [result |-> NilMap, err |-> "not called", tried |-> <<>>]

\* the state of the handler before a request arrives
HandlerIdle ==
    /\ route = "none"
    /\ payload = <<>>
    /\ rpArgs = <<>>
    /\ rpIdx = 1
    /\ rpOut = <<>>
    /\ rpErr = NoError
    /\ rpLog = <<>>
    /\ resp = NilMap
    /\ status = 0
    /\ bodies = <<>>
    /\ audits = <<>>
    /\ remoteCalls = 0
    /\ gbody = NoBody
    /\ files = {}
    /\ tmpName = NoFile
    /\ fatal = FALSE
    /\ trace = <<>>
    /\ units = <<>>

Init ==
    /\ variant \in Variants
    /\ actions \in Tables
    /\ pc = "idle"
    /\ req = NoRequest
    /\ HandlerIdle
    /\ exOut = <<>>
    /\ exObj = NoObject
    /\ exRes = NotCalled

Next ==
    \/ Receive
    \/ Dispatch
    \/ RunPythonExec
    \/ HandleOutput
    \/ ReadPrompt
    \/ GenPost
    \/ GenRead
    \/ TmpCreate
    \/ TmpWrite
    \/ Audit
    \/ Respond
    \/ Return

Spec == Init /\ [][Next]_vars

\* the positions of the handler
PcValues ==
    {"idle", "dispatch", "run", "ran", "read_prompt", "gen_post", "gen_read",
     "tmp_create", "tmp_write", "audit", "respond", "returning", "done",
     "exited"}

\* control moves on: the call the handler is waiting in (the interpreter
\* process, the remote call, a file operation, the audit write) returns
HandlerStep ==
    /\ pc \notin {"done", "exited"}
    /\ pc' \in PcValues
    /\ rpIdx' \in 1..Len(Candidates)
    /\ <<pc', rpIdx'>> # <<pc, rpIdx>>

\* the handler when every external call returns
FairSpec == Spec /\ WF_<<pc, rpIdx>>(HandlerStep)


-----------------------------------------------------------------------------
(* The classifier on every short action string *)

ActChars == {"p", "y", "s", "h", " ", "x", "P", "Y", "\t"}

TailChars == {" ", "x", "\t"}

\* every string of up to three characters, followed by up to MaxTail
\* characters of payload
ActionStrings ==
    {h \o t : h \in UNION {[1..n -> ActChars] : n \in 0..3},
              t \in UNION {[1..n -> TailChars] : n \in 0..MaxTail}}

ClassifyTables ==
    {<<[Name |-> <<"x">>, Script |-> "s1.py", Function |-> "f1"],
       [Name |-> <<"p", "y">>, Script |-> "s2.py", Function |-> "f2"],
       [Name |-> <<"s", "h", " ", "x">>, Script |-> "s3.py", Function |-> "f3"],
       [Name |-> <<"P", "Y", " ", "x">>, Script |-> "s4.py", Function |-> "f4"]>>}

InitClassify ==
    /\ variant = "prefix"
    /\ actions \in ClassifyTables
    /\ pc = "dispatch"
    /\ \E a \in ActionStrings :
         req = [Method |-> "POST", BodyOK |-> TRUE, Action |-> a, Params |-> NilMap]
    /\ HandlerIdle
    /\ exOut = <<>>
    /\ exObj = NoObject
    /\ exRes = NotCalled

SpecClassify == InitClassify /\ [][Dispatch]_vars

-----------------------------------------------------------------------------
(* The extractor on every short output *)

ExLexemes == {"{", "}", ":", ",", " ", "\n", "null", "1", "\"k\"", "progress line"}

\* every text of up to MaxTok lexemes
TokenTexts == UNION {[1..n -> ExLexemes] : n \in 0..MaxTok}

LineTexts ==
    {<<>>,
     <<" ">>,
     <<"progress line">>,
     <<"{", "\"result\"", ":", " ", "42", "}">>,
     <<"{", "\"k\"", ":", "1", "}">>,
     <<" ", "{", "\"k\"", ":", "1", "}", "\r">>,
     <<"null">>,
     <<"42">>,
     <<"{">>,
     <<"}">>,
     <<"\"k\"", ":", "1">>,
     <<"\f", "{", "}">>,
     <<"{", "}", "progress line">>}

RECURSIVE JoinLines(_)
JoinLines(ls) ==
    IF Len(ls) = 1 THEN ls[1] ELSE ls[1] \o <<"\n">> \o JoinLines(Tail(ls))

\* every text of up to MaxLines of these lines
LineOutputs == {JoinLines(ls) : ls \in UNION {[1..n -> LineTexts] : n \in 1..MaxLines}}

ObjectValues ==
    {<<"1">>, <<"42">>, <<"null">>, <<"\"k\"">>, <<"{", "}">>,
     <<"{", "\"k\"", ":", "1", "}">>}

\* the objects printed: every mapping of up to two keys to these values
ObjectKVs == UNION {[K -> ObjectValues] : K \in SUBSET {"\"k\"", "\"result\""}}

Styles == {"compact", "python", "indented", "padded"}

RECURSIVE RenderFrom(_, _, _, _, _)
RenderFrom(f, i, first, colon, comma) ==
    IF i > Len(KeyOrder) THEN <<>>
    ELSE IF KeyOrder[i] \in DOMAIN f
         THEN (IF first THEN <<>> ELSE comma)
              \o <<KeyOrder[i]>> \o colon \o f[KeyOrder[i]]
              \o RenderFrom(f, i + 1, FALSE, colon, comma)
         ELSE RenderFrom(f, i + 1, first, colon, comma)

\* an object as a script prints it: compact, as Python's json.dumps writes
\* it, indented over several lines, or between whitespace
Render(f, style) ==
    IF style = "compact" THEN <<"{">> \o RenderFrom(f, 1, TRUE, <<":">>, <<",">>) \o <<"}">>
    ELSE IF style = "python"
    THEN <<"{">> \o RenderFrom(f, 1, TRUE, <<":", " ">>, <<",", " ">>) \o <<"}", "\n">>
    ELSE IF style = "indented"
    THEN <<"{", "\n", " ">> \o RenderFrom(f, 1, TRUE, <<":", " ">>, <<",", "\n", " ">>)
         \o <<"\n", "}", "\n">>
    ELSE <<"\n", " ", "{">> \o RenderFrom(f, 1, TRUE, <<" ", ":">>, <<" ", ",">>)
         \o <<"}", "\r", "\n", "\n">>

InitExtract ==
    /\ variant = "prefix"
    /\ actions = <<>>
    /\ pc = "extract"
    /\ req = NoRequest
    /\ HandlerIdle
    /\ exRes = NotCalled
    /\ \/ /\ exOut \in TokenTexts \cup LineOutputs
          /\ exObj = NoObject
       \/ \E f \in ObjectKVs, style \in Styles :
            /\ exOut = Render(f, style)
            /\ exObj = [given |-> TRUE, m |-> MakeMap(f)]

\* a call of extractValidJSON
Extract ==
    /\ pc = "extract"
    /\ exRes' = extractValidJSON(exOut)
    /\ pc' = "extracted"
    /\ UNCHANGED <<cfgVars, req, route, payload, runVars, resp, status, bodies,
                   audits, remoteCalls, gbody, files, tmpName, fatal, trace,
                   exOut, exObj, units>>

SpecExtract == InitExtract /\ [][Extract]_vars

----------------------------------------------------------------------------
\* The marker scan of the registered-action path (marker iteration), over the
\* outputs a script can print.

MarkerLines ==
    {<<>>,
     <<"progress line">>,
     <<"{", "\"result\"", ":", " ", "42", "}">>,
     <<"{", "\"result\"", ":", "1", "}", " ", "\r">>,
     <<"{", "\"result\"", ":", "1", "}", "progress line">>,
     <<"progress line", " ", "{", "\"result\"", ":", "{", "\"k\"", ":", "1", "}", "}">>,
     <<"progress line", "{", "\"result\"">>,
     <<"{", "\"k\"", ":", "1", "}">>,
     <<"{", " ", "\"result\"", ":", "1", "}">>,
     <<"{", "\"result\"", ":">>,
     <<"null">>}

\* every text of up to MaxLines of these lines
MarkerOutputs ==
    {JoinLines(ls) : ls \in UNION {[1..n -> MarkerLines] : n \in 1..MaxLines}}

InitMarker ==
    /\ variant = "marker"
    /\ actions = <<>>
    /\ pc = "scan"
    /\ req = NoRequest
    /\ HandlerIdle
    /\ exRes = NotCalled
    /\ \/ /\ exOut \in MarkerOutputs
          /\ exObj = NoObject
       \/ \E f \in ObjectKVs, style \in Styles :
            /\ exOut = Render(f, style)
            /\ exObj = [given |-> TRUE, m |-> MakeMap(f)]

\* the registered-action branch once runPython has returned without error
MarkerExtract ==
    /\ pc = "scan"
    /\ resp' = markerRegisteredResult(exOut, NoError)
    /\ pc' = "scanned"
    /\ UNCHANGED <<cfgVars, req, route, payload, runVars, status, bodies,
                   audits, remoteCalls, gbody, files, tmpName, fatal, trace,
                   exVars, units>>

SpecMarker == InitMarker /\ [][MarkerExtract]_vars

----------------------------------------------------------------------------
\* Requests handled concurrently. net/http runs actionHandler in one goroutine
\* per request; the goroutines share the table, the temporary directory and
\* the audit store, and each has its own locals.

Units == {1, 2}

\* the requests of the units: a registered action and a freeform query
UnitRequests ==
    {[Method |-> "POST", BodyOK |-> TRUE, Action |-> a, Params |-> NilMap] :
        a \in {NameGet, ActFree}}

\* the bodies the generation service answers the units with: not JSON, an
\* empty envelope, or an envelope with code
UnitBodies ==
    {NoBody,
     [decodable |-> TRUE, candidates |-> <<>>],
     [decodable |-> TRUE, candidates |-> <<[parts |-> <<"code1">>]>>],
     [decodable |-> TRUE, candidates |-> <<[parts |-> <<"code3">>]>>]}

\* the names ioutil.TempFile draws from
ScratchNames == {"hartley_generated_1.py", "hartley_generated_2.py"}

\* TempFile without O_EXCL: a name in use can be drawn again
FreeNamesAny(fs) == ScratchNames

\* the names TempFile can return: it opens with O_CREATE|O_EXCL and draws
\* again when the name exists
FreeNames(fs) == {n \in ScratchNames : \A f \in fs : f.name # n}

NoProgram == "no such file"

\* the file the interpreter opens when it is given this name
ProgramAt(fs, name) ==
    IF \E f \in fs : f.name = name
    THEN (CHOOSE f \in fs : f.name = name).text
    ELSE NoProgram

\* what the interpreter prints when it runs this program
Prints(program) ==
    IF program = NoProgram THEN <<"progress line", "\n">>
    ELSE IF program = "" THEN <<>>
    ELSE IF program = "code3" THEN <<"{", "\"k\"", ":", "1", "}", "\n">>
    ELSE <<"{", "\"result\"", ":", " ", "42", "}", "\n">>

\* the locals of a handler that has decoded its request
UnitStart(r) ==
    [pc |-> "dispatch", req |-> r, route |-> "none", args |-> <<>>,
     body |-> NoBody, name |-> NoFile, idx |-> 1, ran |-> NoProgram,
     out |-> <<>>, err |-> NoError, resp |-> NilMap, sent |-> <<>>]

\* the result of the branch once the interpreter returned
unitResult(u) ==
    IF u.route = "sh" THEN shellResult(u.out, u.err)
    ELSE IF u.route = "registered"
    THEN (IF variant = "marker" THEN markerRegisteredResult(u.out, u.err)
          ELSE registeredResult(u.out, u.err))
    ELSE IF variant = "legacy" THEN legacyGeneratedResult(u.out, u.err)
    ELSE IF variant = "main" THEN mainGeneratedResult(u.out, u.err, u.body)
    ELSE IF variant = "marker" THEN markerGeneratedResult(u.out, u.err, u.body)
    ELSE prefixGeneratedResult(u.out, u.err, u.body)

\* what a handler answers when a step fails after a non-empty envelope
unitScratchFailure(u, msg) ==
    IF variant = "legacy" THEN ErrMap(<<msg>>) ELSE geminiRespToMap(u.body)

soloVars == <<pc, req, route, payload, runVars, resp, status, bodies,
              remoteCalls, gbody, tmpName, trace, exVars>>

InitShared ==
    /\ variant \in Variants
    /\ actions \in {t \in Tables : Len(t) > 1}
    /\ pc = "serving"
    /\ req = NoRequest
    /\ route = "none"
    /\ payload = <<>>
    /\ rpArgs = <<>>
    /\ rpIdx = 1
    /\ rpOut = <<>>
    /\ rpErr = NoError
    /\ rpLog = <<>>
    /\ resp = NilMap
    /\ status = 0
    /\ bodies = <<>>
    /\ audits = <<>>
    /\ remoteCalls = 0
    /\ gbody = NoBody
    /\ files = {}
    /\ tmpName = NoFile
    /\ fatal = FALSE
    /\ trace = <<>>
    /\ exOut = <<>>
    /\ exObj = NoObject
    /\ exRes = NotCalled
    /\ units \in [Units -> {UnitStart(r) : r \in UnitRequests}]

\* the routing of one request
UnitDispatch(i) ==
    /\ units[i].pc = "dispatch"
    /\ LET c == classify(units[i].req.Action)
       IN  units' = [units EXCEPT ![i] =
              [@ EXCEPT !.route = c.route,
                        !.args = IF c.route = "sh" THEN shellArgs(c.payload)
                                 ELSE IF c.route = "registered"
                                 THEN registeredArgs(actions[c.idx], units[i].req.Params)
                                 ELSE <<>>,
                        !.pc = IF c.route \in {"sh", "registered"} THEN "run"
                               ELSE IF variant = "main" THEN "read_prompt"
                               ELSE "gen_post"]]
    /\ UNCHANGED <<cfgVars, soloVars, files, audits, fatal>>

\* ioutil.ReadFile("systemPrompt.txt") of the main iteration; log.Fatalf ends
\* the process and with it every handler
UnitReadPrompt(i) ==
    /\ units[i].pc = "read_prompt"
    /\ \E ok \in BOOLEAN :
         IF ok
         THEN /\ units' = [units EXCEPT ![i].pc =
                              IF units[i].route = "registered" THEN "audit"
                              ELSE "gen_post"]
              /\ UNCHANGED fatal
         ELSE /\ units' = [j \in Units |-> [units[j] EXCEPT !.pc = "exited"]]
              /\ fatal' = TRUE
    /\ UNCHANGED <<cfgVars, soloVars, files, audits>>

\* http.Post to the generation service
UnitGenPost(i) ==
    /\ units[i].pc = "gen_post"
    /\ \E ok \in BOOLEAN :
         units' = [units EXCEPT ![i] =
            IF ok THEN [@ EXCEPT !.pc = "gen_read"]
            ELSE [@ EXCEPT !.resp = ErrMap(<<"\"Error calling Gemini API\"">>),
                           !.pc = "audit"]]
    /\ UNCHANGED <<cfgVars, soloVars, files, audits, fatal>>

\* ioutil.ReadAll of the answer, its decoding and the emptiness test
UnitGenRead(i) ==
    /\ units[i].pc = "gen_read"
    /\ \E readOK \in BOOLEAN, b \in UnitBodies :
         IF ~readOK
         THEN /\ b = NoBody
              /\ units' = [units EXCEPT ![i] =
                    [@ EXCEPT !.resp = ErrMap(<<"\"Error reading Gemini response\"">>),
                              !.pc = "audit"]]
         ELSE units' = [units EXCEPT ![i] =
                 IF ~b.decodable
                 THEN [@ EXCEPT !.body = b,
                                !.resp = ErrMapWith(<<"\"Error parsing Gemini response\"">>,
                                            "\"raw_response\"", StringOf(bodyText(b))),
                                !.pc = "audit"]
                 ELSE IF IsEmptyEnvelope(b)
                 THEN [@ EXCEPT !.body = b,
                                !.resp = ErrMapWith(<<"\"No content generated by Gemini\"">>,
                                            "\"raw_response\"", StringOf(bodyText(b))),
                                !.pc = "audit"]
                 ELSE [@ EXCEPT !.body = b, !.pc = "tmp_create"]]
    /\ UNCHANGED <<cfgVars, soloVars, files, audits, fatal>>

\* ioutil.TempFile("", "hartley_generated_*.py")
UnitTmpCreate(i) ==
    /\ units[i].pc = "tmp_create"
    /\ \/ \E n \in FreeNames(files) :
            /\ files' = files \cup {[name |-> n, text |-> ""]}
            /\ units' = [units EXCEPT ![i] = [@ EXCEPT !.name = n, !.pc = "tmp_write"]]
       \/ /\ units' = [units EXCEPT ![i] =
                [@ EXCEPT !.resp = unitScratchFailure(units[i],
                              "\"Error creating temporary file for generated code\""),
                          !.pc = "audit"]]
          /\ UNCHANGED files
    /\ UNCHANGED <<cfgVars, soloVars, audits, fatal>>

\* tmpFile.Write(generatedCode) and tmpFile.Close()
UnitTmpWrite(i) ==
    /\ units[i].pc = "tmp_write"
    /\ \/ /\ files' = osRemove(files, units[i].name)
                      \cup {[name |-> units[i].name,
                             text |-> generatedCode(units[i].body)]}
          /\ units' = [units EXCEPT ![i] =
                [@ EXCEPT !.args = <<<<units[i].name>>>>, !.pc = "run"]]
       \/ /\ units' = [units EXCEPT ![i] =
                [@ EXCEPT !.resp = unitScratchFailure(units[i],
                              "\"Error writing generated code to temporary file\""),
                          !.pc = "audit"]]
          /\ files' = IF variant = "prefix" THEN osRemove(files, units[i].name)
                      ELSE files
    /\ UNCHANGED <<cfgVars, soloVars, audits, fatal>>

\* exec.Command(cand, args...).CombinedOutput() for a unit: as ProcOutcomes,
\* with an interpreter that ran printing what the program prints
UnitOutcomes(cand, program) ==
    {[kind |-> "missing", out |-> <<>>,
      err |-> [kind |-> "ErrNotFound", proc |-> cand]],
     [kind |-> "startfail", out |-> <<>>,
      err |-> [kind |-> "StartError", proc |-> cand]],
     [kind |-> "stub", out |-> <<Sentinel, "\n">>,
      err |-> [kind |-> "ExitError", proc |-> cand]],
     [kind |-> "ran", out |-> Prints(program), err |-> NoError],
     [kind |-> "ran", out |-> Prints(program),
      err |-> [kind |-> "ExitError", proc |-> cand]]}

\* one exec.Command(candidate, args...).CombinedOutput() of runPython and the
\* test that follows it; an interpreter that starts opens the script it is
\* given, a registered script or the scratch file of that name
UnitRun(i) ==
    /\ units[i].pc = "run"
    /\ LET cand    == Candidates[units[i].idx]
           program == IF units[i].route = "registered" THEN units[i].args[1][1]
                      ELSE ProgramAt(files, units[i].name)
       IN  \E o \in UnitOutcomes(cand, program) :
             units' = [units EXCEPT ![i] =
                IF units[i].idx < Len(Candidates) /\ IsNotFound(o.err, o.out)
                THEN [@ EXCEPT !.idx = @ + 1,
                               !.ran = IF o.kind = "ran" THEN program ELSE @]
                ELSE [@ EXCEPT !.ran = IF o.kind = "ran" THEN program ELSE @,
                               !.out = o.out, !.err = o.err, !.pc = "ran"]]
    /\ UNCHANGED <<cfgVars, soloVars, files, audits, fatal>>

\* the result of the branch and, in the prefix iteration, the deferred
\* os.Remove of the handler that created the scratch file
UnitHandleOutput(i) ==
    /\ units[i].pc = "ran"
    /\ units' = [units EXCEPT ![i] =
          [@ EXCEPT !.resp = unitResult(units[i]),
                    !.pc = IF variant = "main" /\ units[i].route = "registered"
                           THEN "read_prompt" ELSE "audit"]]
    /\ files' = IF variant = "prefix" /\ units[i].name # NoFile
                THEN osRemove(files, units[i].name) ELSE files
    /\ UNCHANGED <<cfgVars, soloVars, audits, fatal>>

\* logToDB
UnitAudit(i) ==
    /\ units[i].pc = "audit"
    /\ \E ok \in BOOLEAN :
         audits' = Append(audits, [action |-> units[i].req.Action,
                                   request |-> requestJSON(units[i].req),
                                   response |-> jsonMarshal(units[i].resp),
                                   ok |-> ok])
    /\ units' = [units EXCEPT ![i].pc = "respond"]
    /\ UNCHANGED <<cfgVars, soloVars, files, fatal>>

\* jsonResponse with a bug: the handler registers what it answered
UnitRespondRegisters(i) ==
    /\ units[i].pc = "respond"
    /\ units' = [units EXCEPT ![i] =
          [@ EXCEPT !.sent = Append(@, jsonEncode(units[i].resp)),
                    !.pc = IF variant # "prefix" /\ units[i].name # NoFile
                           THEN "returning" ELSE "done"]]
    /\ actions' = <<[Name |-> units[i].req.Action, Script |-> "s2.py",
                     Function |-> "f2"]>> \o actions
    /\ UNCHANGED <<variant, soloVars, files, audits, fatal>>

\* jsonResponse(w, resp), the last statement of actionHandler; the handler
\* has returned when no os.Remove was deferred in it
UnitRespond(i) ==
    /\ units[i].pc = "respond"
    /\ units' = [units EXCEPT ![i] =
          [@ EXCEPT !.sent = Append(@, jsonEncode(units[i].resp)),
                    !.pc = IF variant # "prefix" /\ units[i].name # NoFile
                           THEN "returning" ELSE "done"]]
    /\ UNCHANGED <<cfgVars, soloVars, files, audits, fatal>>

\* the return of actionHandler in the legacy, marker and main iterations,
\* where the os.Remove deferred after ioutil.TempFile runs
UnitReturn(i) ==
    /\ units[i].pc = "returning"
    /\ files' = osRemove(files, units[i].name)
    /\ units' = [units EXCEPT ![i].pc = "done"]
    /\ UNCHANGED <<cfgVars, soloVars, audits, fatal>>

NextShared ==
    \E i \in Units :
        \/ UnitDispatch(i)
        \/ UnitReadPrompt(i)
        \/ UnitGenPost(i)
        \/ UnitGenRead(i)
        \/ UnitTmpCreate(i)
        \/ UnitTmpWrite(i)
        \/ UnitRun(i)
        \/ UnitHandleOutput(i)
        \/ UnitAudit(i)
        \/ UnitRespond(i)
        \/ UnitReturn(i)

SpecShared == InitShared /\ [][NextShared]_vars


-----------------------------------------------------------------------------
(* Properties *)

\* the action string starts with "py" or "sh" followed by a space
IsDirectiveText(a) ==
    /\ Len(a) >= 3
    /\ a[3] = " "
    /\ \/ (a[1] = "p" /\ a[2] = "y")
       \/ (a[1] = "s" /\ a[2] = "h")

IsRegisteredName(a) == \E i \in 1..Len(actions) : actions[i].Name = a

\* the first entry of the table with that name
FirstEntry(a) ==
    actions[CHOOSE i \in 1..Len(actions) :
                /\ actions[i].Name = a
                /\ \A j \in 1..(i - 1) : actions[j].Name # a]

\* a well-formed POST request went through the dispatch of actionHandler
Dispatched ==
    /\ pc \notin {"idle", "dispatch", "extract", "extracted"}
    /\ req.Method = "POST"
    /\ req.BodyOK

\* runPython was called with the script and function of entry e and with a
\* third argument that decodes to the params of the request, every process
\* was started with these arguments, and the remote service was not called
RanEntry(e) ==
    /\ route = "registered"
    /\ Len(rpArgs) = 3
    /\ rpArgs[1] = <<e.Script>>
    /\ rpArgs[2] = <<e.Function>>
    /\ jsonUnmarshal(rpArgs[3], NilMap) = [err |-> "nil", val |-> req.Params]
    /\ \A i \in 1..Len(rpLog) : rpLog[i].args = rpArgs
    /\ (pc # "run" => Len(rpLog) >= 1)
    /\ remoteCalls = 0

\* C1 as stated: every request whose action equals a registered name runs
\* that entry's script and function with the params as JSON, and the remote
\* generation service is never called.
C1_RegisteredNameRuns ==
    (Dispatched /\ IsRegisteredName(req.Action)) => RanEntry(FirstEntry(req.Action))

\* C1 amended: every request whose action equals a registered name and, in
\* the iteration with directives, does not start with "py " or "sh ", runs
\* the first entry of that name with the params as JSON, and the remote
\* generation service is never called.
C1_RegisteredNonDirectiveRuns ==
    (/\ Dispatched
     /\ IsRegisteredName(req.Action)
     /\ (variant = "prefix" => ~IsDirectiveText(req.Action)))
    => RanEntry(FirstEntry(req.Action))

C1_Witness ==
    /\ variant = "prefix"
    /\ pc = "ran"
    /\ route = "registered"
    /\ req.Action = NameGet
    /\ req.Params = MakeMap(("\"k\"" :> <<"1">>))
    /\ rpLog[1].args[3] = <<"{", "\"k\"", ":", "1", "}">>

\* p is s without its leading and trailing whitespace
IsTrimOf(p, s) ==
    /\ p # <<>> => (p[1] \notin UnicodeSpace /\ p[Len(p)] \notin UnicodeSpace)
    /\ \E i \in 0..Len(s) :
         /\ i + Len(p) <= Len(s)
         /\ SubSeq(s, i + 1, i + Len(p)) = p
         /\ \A k \in 1..i : s[k] \in UnicodeSpace
         /\ \A k \in (i + Len(p) + 1)..Len(s) : s[k] \in UnicodeSpace

\* C2: for an action that starts with "py" or "sh" and a space, parsePrefix
\* returns the code and the trimmed remainder, actionHandler calls the
\* handler of that directive with that payload, and the freeform path is
\* not taken.
C2_DirectiveRouting ==
    (pc # "dispatch" /\ IsDirectiveText(req.Action)) =>
        LET code == SubSeq(req.Action, 1, 2)
            rest == SubSeq(req.Action, 4, Len(req.Action))
        IN  /\ parsePrefix(req.Action)[1] = code
            /\ IsTrimOf(parsePrefix(req.Action)[2], rest)
            /\ payload = parsePrefix(req.Action)[2]
            /\ route = (IF code = <<"p", "y">> THEN "py" ELSE "sh")
            /\ route = "py" => pc = "gen_post"
            /\ route = "sh" => (pc = "run" /\ rpArgs = shellArgs(payload))
            /\ route # "freeform"

C2_Witness ==
    /\ pc = "run"
    /\ route = "sh"
    /\ req.Action = <<"s", "h", " ", " ", "x", " ">>
    /\ payload = <<"x">>

\* C3: in the iteration with directives, an action that both starts with a
\* directive code and a space and equals a registered name is handled as a
\* directive, and the script of the registered entry is never run.
C3_DirectiveBeforeRegistry ==
    (/\ variant = "prefix"
     /\ Dispatched
     /\ IsDirectiveText(req.Action)
     /\ IsRegisteredName(req.Action))
    => /\ route \in {"py", "sh"}
       /\ \A i \in 1..Len(actions) :
            actions[i].Name = req.Action =>
              /\ rpArgs = <<>> \/ rpArgs[1] # <<actions[i].Script>>
              /\ \A k \in 1..Len(rpLog) : rpLog[k].args[1] # <<actions[i].Script>>

C3_Witness ==
    /\ variant = "prefix"
    /\ pc = "ran"
    /\ req.Action = ActShX
    /\ IsRegisteredName(ActShX)
    /\ route = "sh"
    /\ rpLog[1].args[1] = <<ShellScript>>

\* C4: an action is a directive exactly when it has at least 3 characters,
\* the 3rd is a space and the first 2 are "py" or "sh"; otherwise
\* parsePrefix returns the empty prefix and the input unchanged, and the
\* action goes to the registered path if it is a registered name and to the
\* freeform path, untrimmed, if not.
C4_ClassificationTotalExclusive ==
    pc # "dispatch" =>
        LET a == req.Action
        IN  /\ route \in {"py", "sh", "registered", "freeform"}
            /\ route \in {"py", "sh"} <=> IsDirectiveText(a)
            /\ ~IsDirectiveText(a) =>
                 /\ parsePrefix(a) = <<<<>>, a>>
                 /\ IsRegisteredName(a) => (route = "registered" /\ pc = "run")
                 /\ ~IsRegisteredName(a) =>
                      (route = "freeform" /\ payload = a /\ pc = "gen_post")
            /\ a \in {<<"p", "y">>, <<"p", "y", "x">>, <<"P", "Y", " ", "x">>,
                      <<"s", "h", "\t", "x">>}
                 => route \notin {"py", "sh"}

C4_Witness ==
    /\ pc = "gen_post"
    /\ req.Action = <<"s", "h", "\t", "x", " ">>
    /\ route = "freeform"
    /\ payload = <<"s", "h", "\t", "x", " ">>

\* an attempt failed as not-found: the binary was not found, or the process
\* failed and its output contains the sentinel
FailedAsNotFound(a) ==
    \/ a.kind = "missing"
    \/ (a.err.kind # "nil" /\ \E i \in 1..Len(a.out) : a.out[i] = "Python was not found")

\* runPython has returned
RunReturned == Len(rpLog) >= 1 /\ pc # "run"

\* an attempt failed as not-found in the wide sense: the process could not
\* be started, whatever the reason, or it failed and its output contains the
\* sentinel
CouldNotStartOrSentinel(a) ==
    \/ a.kind \in {"missing", "startfail"}
    \/ (a.err.kind # "nil" /\ \E i \in 1..Len(a.out) : a.out[i] = "Python was not found")

\* C5, as stated: runPython tries python3, python, py in this order, starts
\* a candidate only when the previous one could not be started or failed with
\* the sentinel in its output, stops at the first candidate of which neither
\* is true, returns the second one's output when the first is missing and the
\* second runs, and starts at most three processes.
C5_FallbackOnAnyStartFailure ==
    variant # "legacy" =>
        /\ Len(rpLog) <= 3
        /\ \A i \in 1..Len(rpLog) : rpLog[i].cand = <<"python3", "python", "py">>[i]
        /\ \A i \in 1..(Len(rpLog) - 1) : CouldNotStartOrSentinel(rpLog[i])
        /\ (pc = "run" /\ Len(rpLog) >= 1) => CouldNotStartOrSentinel(rpLog[Len(rpLog)])
        /\ (RunReturned /\ Len(rpLog) < 3) => ~CouldNotStartOrSentinel(rpLog[Len(rpLog)])
        /\ (/\ RunReturned
            /\ Len(rpLog) >= 2
            /\ rpLog[1].kind = "missing"
            /\ rpLog[2].kind = "ran"
            /\ rpLog[2].err = NoError)
           => (Len(rpLog) = 2 /\ rpErr = NoError /\ rpOut = rpLog[2].out)

\* C5, with not-found meaning that the binary was not found
\* (exec.ErrNotFound) or that the attempt failed with the sentinel in its
\* output: runPython tries python3, python, py in this order, starts a
\* candidate only when the previous one failed as not-found, stops at the
\* first that did not (a binary that was found and could not be started ends
\* the chain), returns the second one's output when the first is missing and
\* the second runs, and starts at most three processes.
C5_FallbackChain ==
    variant # "legacy" =>
        /\ Len(rpLog) <= 3
        /\ \A i \in 1..Len(rpLog) : rpLog[i].cand = <<"python3", "python", "py">>[i]
        /\ \A i \in 1..(Len(rpLog) - 1) : FailedAsNotFound(rpLog[i])
        /\ (pc = "run" /\ Len(rpLog) >= 1) => FailedAsNotFound(rpLog[Len(rpLog)])
        /\ (RunReturned /\ Len(rpLog) < 3) => ~FailedAsNotFound(rpLog[Len(rpLog)])
        /\ (/\ RunReturned
            /\ Len(rpLog) >= 2
            /\ rpLog[1].kind = "missing"
            /\ rpLog[2].kind = "ran"
            /\ rpLog[2].err = NoError)
           => (Len(rpLog) = 2 /\ rpErr = NoError /\ rpOut = rpLog[2].out)

C5_Witness ==
    /\ variant = "main"
    /\ pc = "ran"
    /\ Len(rpLog) = 2
    /\ rpLog[1].kind = "missing"
    /\ rpLog[2].kind = "ran"
    /\ rpErr = NoError
    /\ rpOut = <<"{", "\"result\"", ":", " ", "42", "}", "\n">>

\* C6: a script that a real interpreter started and that then failed,
\* whatever it printed, is never followed by another candidate, and its
\* output and error are what runPython returns.
C6_ScriptFailureIsFinal ==
    variant # "legacy" =>
        \A i \in 1..Len(rpLog) :
            (rpLog[i].kind = "ran" /\ rpLog[i].err.kind # "nil") =>
                /\ i = Len(rpLog)
                /\ pc # "run"
                /\ rpOut = rpLog[i].out
                /\ rpErr = rpLog[i].err

\* C7: when every candidate failed as not-found runPython returns the error
\* of the last candidate tried, and whenever it returns an error it returns
\* the output of the attempt that produced that error.
C7_LastErrorWithItsOutput ==
    (variant # "legacy" /\ RunReturned) =>
        LET last == rpLog[Len(rpLog)]
        IN  /\ (\A i \in 1..Len(rpLog) : FailedAsNotFound(rpLog[i])) =>
                 (Len(rpLog) = 3 /\ rpErr = last.err /\ rpErr.proc = "py")
            /\ rpErr.kind # "nil" =>
                 /\ rpErr = last.err
                 /\ rpOut = last.out
                 /\ \A i \in 1..Len(rpLog) : rpLog[i].err = rpErr => rpLog[i].out = rpOut

C7_Witness ==
    /\ variant = "prefix"
    /\ pc = "ran"
    /\ Len(rpLog) = 3
    /\ rpLog[1].kind = "stub"
    /\ rpLog[2].kind = "missing"
    /\ rpLog[3].kind = "missing"
    /\ rpErr = [kind |-> "ErrNotFound", proc |-> "py"]
    /\ rpOut = <<>>

\* the text is one JSON object between optional JSON whitespace
IsObjectText(s) == scanWhole(s).kind = "object"

\* line i of the output, trimmed, is one JSON object
LineIsObject(s, i) == IsObjectText(TrimSpace(SplitLines(s)[i]))

\* C8: for an output that is exactly one JSON object, optionally between
\* whitespace, extractValidJSON returns that object, with its keys and
\* values, and a nil error, and decodes no single line.
C8_RoundTrip ==
    pc = "extracted" =>
        /\ exObj.given =>
             exRes = [result |-> exObj.m, err |-> "nil", tried |-> <<>>]
        /\ IsObjectText(exOut) =>
             /\ exRes.err = "nil"
             /\ exRes.tried = <<>>
             /\ ~exRes.result.isNil
             /\ exRes.result.kv = scanWhole(exOut).kv

C8_Witness ==
    /\ pc = "extracted"
    /\ exObj.given
    /\ Len(SplitLines(exOut)) >= 4
    /\ exRes.err = "nil"
    /\ exRes.result = MakeMap(("\"k\"" :> <<"{", "}">>) @@ ("\"result\"" :> <<"42">>))

\* C9: when the whole output is not one JSON object, extractValidJSON
\* returns the object of the last line that is a JSON object, whatever the
\* lines before and after it hold; "progress line\n{"result": 42}\n" gives
\* {"result": 42}.
C9_LastObjectLineWins ==
    (/\ pc = "extracted"
     /\ ~IsObjectText(exOut)
     /\ \E i \in 1..Len(SplitLines(exOut)) : LineIsObject(exOut, i))
    => LET lines == SplitLines(exOut)
           last  == CHOOSE i \in 1..Len(lines) :
                      /\ LineIsObject(exOut, i)
                      /\ \A j \in (i + 1)..Len(lines) : ~LineIsObject(exOut, j)
       IN  /\ exRes.err = "nil"
           /\ exRes.result = MakeMap(scanWhole(TrimSpace(lines[last])).kv)

\* C10: when neither the whole output nor any line is a JSON object,
\* extractValidJSON returns the not-found error.
C10_NotFoundWhenNoObject ==
    (/\ pc = "extracted"
     /\ ~IsObjectText(exOut)
     /\ \A i \in 1..Len(SplitLines(exOut)) : ~LineIsObject(exOut, i))
    => (exRes.err = NotFoundErr /\ exRes.result = NilMap)


-----------------------------------------------------------------------------
(* Results, fallbacks and the audit trail *)

\* the map has the key
HasKey(m, k) == ~m.isNil /\ k \in DOMAIN m.kv

\* the branch has built its result from what runPython returned
ResultBuilt == \E i \in 1..Len(trace) : trace[i] = "extract"

\* a script was run on a local path (registered action or shell directive),
\* runPython returned no error, and no result object came out of the output:
\* the result is an error object or no object at all
LocalExtractionFailed ==
    /\ ResultBuilt
    /\ route \in {"registered", "sh"}
    /\ rpErr = NoError
    /\ (resp.isNil \/ HasKey(resp, "\"error\""))

\* C11: when the extraction of a result object fails on a local path, the
\* result has an error key and a field that holds the raw output of the
\* interpreter unchanged.
C11_LocalFailureKeepsRawOutput ==
    LocalExtractionFailed =>
        /\ HasKey(resp, "\"error\"")
        /\ \E k \in {"\"output\"", "\"raw_output\""} :
             HasKey(resp, k) /\ resp.kv[k] = StringOf(rpOut)


\* the generation service answered with an envelope that has no candidate,
\* or whose first candidate has no fragment
EmptyEnvelopeRead ==
    /\ gbody.decodable
    /\ (Len(gbody.candidates) = 0 \/ Len(gbody.candidates[1].parts) = 0)

NoContentResult ==
    ErrMapWith(<<"\"No content generated by Gemini\"">>, "\"raw_response\"",
               StringOf(bodyText(gbody)))

\* C12: after an envelope with no candidate, or with a first candidate that
\* has no fragment, the result is the error "No content generated by Gemini"
\* with the raw body, no scratch file was created and no interpreter process
\* was started.
C12_EmptyEnvelopeIsNoContent ==
    EmptyEnvelopeRead =>
        /\ resp = NoContentResult
        /\ pc \in {"audit", "respond", "returning", "done"}
        /\ tmpName = NoFile
        /\ files = {}
        /\ rpLog = <<>>
        /\ \A i \in 1..Len(trace) : trace[i] \notin {"create", "write", "exec"}

C12_Witness ==
    /\ pc = "done"
    /\ gbody = [decodable |-> TRUE, candidates |-> <<[parts |-> <<>>]>>]
    /\ bodies = <<jsonEncode(NoContentResult)>>
    /\ rpLog = <<>>


\* the stage was gone through
Went(stage) == \E i \in 1..Len(trace) : trace[i] = stage

\* a code-generation branch has built its result
GenSettled ==
    /\ route \in {"py", "freeform"}
    /\ pc \in {"audit", "respond", "returning", "done"}

NonEmptyEnvelopeRead == gbody.decodable /\ ~EmptyEnvelopeRead

\* the result is an object that the script printed: an object that is
\* neither an error object nor the envelope
IsScriptObject(m) ==
    /\ ~m.isNil
    /\ ~HasKey(m, "\"error\"")
    /\ ~HasKey(m, "\"candidates\"")

\* the error message that names the stage at which generation stopped
StageMessages ==
    IF ~Went("read") THEN {<<"\"Error calling Gemini API\"">>}
    ELSE IF ~gbody.decodable
    THEN {<<"\"Error reading Gemini response\"">>, <<"\"Error parsing Gemini response\"">>}
    ELSE {<<"\"No content generated by Gemini\"">>}

\* C13: on a code-generation path, once a non-empty envelope was obtained
\* every later failure makes the result the decoded envelope; when the
\* envelope is missing, undecodable or empty the result is an error object
\* whose message names the failing stage.
C13_FallbackIsEnvelope ==
    GenSettled =>
        IF NonEmptyEnvelopeRead
        THEN \/ resp = geminiRespToMap(gbody)
             \/ (ResultBuilt /\ rpErr = NoError /\ IsScriptObject(resp))
        ELSE HasKey(resp, "\"error\"") /\ resp.kv["\"error\""] \in StageMessages


\* the pipeline has produced the result of the request
PipelineSettled == Went("classify") /\ pc \in {"audit", "respond", "returning", "done"}

\* the result is the successfully extracted result of the executed script
IsExtractedResult ==
    ResultBuilt /\ rpErr = NoError /\ IsScriptObject(resp)

\* C14: every result that is not the successfully extracted result of the
\* executed script has an error key.
C14_FailureHasErrorKey ==
    (PipelineSettled /\ ~IsExtractedResult) => HasKey(resp, "\"error\"")


\* handling of the request has finished: actionHandler returned, or the
\* process was ended
HandlingFinished == pc \in {"done", "exited"}

\* C15: once handling of the request has finished, the scratch file created
\* for the generated code is absent, on every path after its creation (write
\* failure, interpreter error, extraction failure, success).
C15_ScratchFileRemoved ==
    HandlingFinished =>
        /\ files = {}
        /\ Went("create") /\ tmpName # NoFile => Went("remove")

C15_Witness ==
    /\ pc = "done"
    /\ variant = "main"
    /\ tmpName # NoFile
    /\ Went("exec")
    /\ rpErr.kind = "ExitError"
    /\ files = {}


\* C16: every request handled by actionHandler, whatever its method, body
\* and route, produces exactly one response body and exactly one audit write
\* attempt: never two of either, and one of each when handling has finished.
C16_OneResponseOneAudit ==
    /\ Len(bodies) <= 1
    /\ Len(audits) <= 1
    /\ HandlingFinished => (Len(bodies) = 1 /\ Len(audits) = 1)


\* C17: nothing that happens while a request is handled ends the server
\* process, and no request is left without a response: handling finishes
\* only by writing the response.
C17_NoRequestIsFatal ==
    /\ ~fatal
    /\ pc # "exited"
    /\ HandlingFinished => Len(bodies) = 1


\* C18: a failure of the audit write never changes the response and never
\* prevents it: the step that attempts the INSERT, whether it succeeds or
\* fails, leaves the result as it was and leads to the response step, which
\* can always be taken and writes that result.
C18_AuditFailureIsSilent ==
    /\ [](pc = "respond" => ENABLED Respond)
    /\ [][/\ pc = "audit" =>
               /\ pc' = "respond"
               /\ resp' = resp
               /\ bodies' = bodies
               /\ status' = status
               /\ fatal' = fatal
               /\ Len(audits') = Len(audits) + 1
          /\ pc = "respond" =>
               /\ pc' \in {"returning", "done"}
               /\ status' = 200
               /\ bodies' = Append(bodies, jsonEncode(resp))]_vars

C18_Witness ==
    /\ pc = "done"
    /\ Len(audits) = 1
    /\ ~audits[1].ok
    /\ IsExtractedResult
    /\ status = 200
    /\ bodies = <<jsonEncode(resp)>>


\* the audit record of the request carries the action string, the serialized
\* request and the serialized result, and the body written is that result
AuditMatchesResponse ==
    Len(audits) >= 1 =>
        /\ audits[1].action = req.Action
        /\ audits[1].request = requestJSON(req)
        /\ audits[1].response = jsonMarshal(resp)
        /\ pc = "done" => bodies = <<audits[1].response \o <<"\n">>>>

\* a registered script printed exactly one JSON object and exited zero
RegisteredPrintedObject ==
    /\ route = "registered"
    /\ ResultBuilt
    /\ rpErr = NoError
    /\ IsObjectText(rpOut)

\* the object that the output is the text of
PrintedObject == jsonUnmarshal(rpOut, NilMap).val

\* the text of the object starts with the marker {"result"
StartsWithMarker(out) ==
    MarkerIndex(out, 1) > 0 /\ MarkerIndex(out, 1) = SkipSpace(out, 1)

\* C19: the audit record carries the action string, the
\* serialized request and a serialized response equal to the object
\* returned; when a registered script prints a JSON object and exits zero,
\* that object is both the response and the audited response.
C19_AuditCarriesResponse ==
    /\ AuditMatchesResponse
    /\ (RegisteredPrintedObject /\ Len(audits) >= 1) =>
         /\ resp = PrintedObject
         /\ audits[1].response = jsonMarshal(PrintedObject)

\* the request passed the method check and the decoding of its body
PassedChecks == req.Method = "POST" /\ req.BodyOK

\* C20: a request whose method is not POST gets status 405 and the body
\* {"error": "Method not allowed"}; a POST whose body is not decodable gets
\* status 400 and the body {"error": "Invalid JSON"}; every request that
\* passes both checks gets status 200 and one body, in which a failure of the
\* pipeline is an error key.
C20_TransportContract ==
    HandlingFinished =>
        /\ req.Method # "POST" =>
             /\ status = 405
             /\ bodies = <<<<"{", "\"error\"", ":", "\"Method not allowed\"", "}", "\n">>>>
        /\ (req.Method = "POST" /\ ~req.BodyOK) =>
             /\ status = 400
             /\ bodies = <<<<"{", "\"error\"", ":", "\"Invalid JSON\"", "}", "\n">>>>
        /\ PassedChecks =>
             /\ status = 200
             /\ bodies = <<jsonEncode(resp)>>
             /\ ~IsExtractedResult => HasKey(resp, "\"error\"")


\* C22: when the script of a registered action exits zero and prints exactly
\* one JSON object, whatever its keys, the result is that object.
C22_RegisteredObjectReturned ==
    RegisteredPrintedObject => resp = PrintedObject


\* C23: every response body written for a well-formed POST request is a JSON
\* object, whatever the interpreter printed.
C23_BodyIsObject ==
    (PassedChecks /\ Len(bodies) >= 1) =>
        /\ ~resp.isNil
        /\ bodies[1] = jsonEncode(resp)
        /\ Head(bodies[1]) = "{"
        /\ bodies[1][Len(bodies[1]) - 1] = "}"


\* the interpreter is being run, or has been run, on generated code
RunningGenerated == route \in {"py", "freeform"} /\ pc \in {"run", "ran"}

\* C26: the code in the scratch file while the interpreter runs is exactly
\* the text of the first fragment of the first candidate of the envelope, and
\* the interpreter is given that file and nothing else.
C26_FirstFragmentExecuted ==
    RunningGenerated =>
        /\ files = {[name |-> tmpName, text |-> gbody.candidates[1].parts[1]]}
        /\ tmpName # NoFile
        /\ rpArgs = <<<<tmpName>>>>
        /\ \A i \in 1..Len(rpLog) : rpLog[i].args = <<<<tmpName>>>>

C26_Witness ==
    /\ pc = "ran"
    /\ route = "freeform"
    /\ gbody.candidates = <<[parts |-> <<"code1", "code2">>], [parts |-> <<"code3">>]>>
    /\ files = {[name |-> tmpName, text |-> "code1"]}
    /\ Len(rpLog) = 2
    /\ rpLog[2].kind = "ran"


\* the entries of the table that have the name
EntriesNamed(a) == {i \in 1..Len(actions) : actions[i].Name = a}

\* C27: when several entries of the table have the name requested, only the
\* first of them in table order is handed to the interpreter runner, in one
\* call of the runner (each candidate interpreter is started at most once,
\* with the arguments of that entry); a later duplicate is never invoked.
C27_FirstDuplicateOnly ==
    (route = "registered" /\ Cardinality(EntriesNamed(req.Action)) >= 2) =>
        LET first == FirstEntry(req.Action)
        IN  /\ rpArgs = registeredArgs(first, req.Params)
            /\ \A i \in 1..Len(rpLog) :
                 /\ rpLog[i].args = rpArgs
                 /\ rpLog[i].args[1] = <<first.Script>>
                 /\ \A j \in 1..Len(rpLog) : rpLog[i].cand = rpLog[j].cand => i = j
            /\ \A k \in EntriesNamed(req.Action) :
                 actions[k].Script # first.Script =>
                     \A i \in 1..Len(rpLog) : rpLog[i].args[1] # <<actions[k].Script>>
            /\ (pc \notin {"run"} => Len(rpLog) >= 1)

C27_Witness ==
    /\ pc = "done"
    /\ route = "registered"
    /\ Len(actions) = 3
    /\ req.Action = NameGet
    /\ actions[2].Name = NameGet /\ actions[3].Name = NameGet
    /\ Len(rpLog) = 1
    /\ rpLog[1].kind = "ran"
    /\ rpLog[1].args[1] = <<"s1.py">>
    /\ rpLog[1].args[2] = <<"f1">>


\* C29: a request makes at most one call to the generation service, whatever
\* the call, the body or the envelope turn out to be, and a request routed to
\* a registered action or to the shell directive makes none.
C29_AtMostOneRemoteCall ==
    /\ remoteCalls <= 1
    /\ remoteCalls = Cardinality({i \in 1..Len(trace) : trace[i] = "post"})
    /\ route \in {"registered", "sh"} => remoteCalls = 0
    /\ (route \in {"py", "freeform"} /\ pc \in {"audit", "respond", "returning", "done"})
         => remoteCalls = 1

C29_Witness ==
    /\ pc = "done"
    /\ route = "freeform"
    /\ remoteCalls = 1
    /\ gbody.decodable
    /\ gbody.candidates = <<>>
    /\ resp = NoContentResult


\* the offsets at which the marker {"result" begins
MarkerOffsets(out) ==
    {i \in 1..(Len(out) - 1) : out[i] = "{" /\ out[i + 1] = "\"result\""}

FirstMarker(out) ==
    CHOOSE i \in MarkerOffsets(out) : \A j \in MarkerOffsets(out) : i <= j

\* the text from the first marker to the end of the output
FromFirstMarker(out) == SubSeq(out, FirstMarker(out), Len(out))

\* C30: on the registered-action path of the marker iteration the output is
\* decoded from the first occurrence of {"result" to its end: the text before
\* the first marker is ignored, an output without a marker gives the error
\* "Valid JSON not found in output", and an output whose text from the first
\* marker on is not exactly one JSON object gives the error "Error parsing
\* extracted JSON".
C30_MarkerPolicy ==
    pc = "scanned" =>
        IF MarkerOffsets(exOut) = {}
        THEN resp = ErrMap(<<"\"Valid JSON not found in output\"">>)
        ELSE /\ resp = markerRegisteredResult(FromFirstMarker(exOut), NoError)
             /\ IF IsObjectText(FromFirstMarker(exOut))
                THEN resp = MakeMap(scanWhole(FromFirstMarker(exOut)).kv)
                ELSE resp = ErrMap(<<"\"Error parsing extracted JSON\"">>)

\* an earlier incidental marker makes a later complete object unreachable
C30_Witness ==
    /\ pc = "scanned"
    /\ Cardinality(MarkerOffsets(exOut)) = 2
    /\ FirstMarker(exOut) > 1
    /\ IsObjectText(SubSeq(exOut, CHOOSE i \in MarkerOffsets(exOut) : i > FirstMarker(exOut),
                           Len(exOut)))
    /\ resp = ErrMap(<<"\"Error parsing extracted JSON\"">>)


\* the registered action the shell directive stands for
ShellAction == [Name |-> <<>>, Script |-> ShellScript, Function |-> ShellFunction]

\* C21: the response to the shell directive with payload P equals the response
\* of a registered action with script python/action_runner.py, function
\* run_terminal_command and params {"command": P} for every outcome of the
\* interpreter, and the interpreter receives the same three arguments.
C21_ShellEqualsRegistered ==
    (route = "sh" /\ pc \in {"audit", "respond", "returning", "done"}) =>
        /\ rpArgs = registeredArgs(ShellAction,
                                   MakeMap(("\"command\"" :> jsonString(payload))))
        /\ resp = registeredResult(rpOut, rpErr)


\* the steps of one request, in the order of the pipeline; the prompt read and
\* the deferred removal are not stages of their own
StageRank ==
    [decode |-> 1, classify |-> 2, post |-> 3, read |-> 4, create |-> 5,
     write |-> 6, exec |-> 7, extract |-> 8, audit |-> 9, respond |-> 10]

Ranked(i) == trace[i] \in DOMAIN StageRank

\* each stage is passed at most once (the runner's attempts, one per
\* candidate, are one stage) and no stage follows a later one
StagesInOrder ==
    /\ \A i, j \in 1..Len(trace) :
         (i < j /\ Ranked(i) /\ Ranked(j)) =>
             \/ StageRank[trace[i]] < StageRank[trace[j]]
             \/ trace[i] = "exec" /\ trace[j] = "exec"
    /\ \A i, j \in 1..Len(trace) :
         (i < j /\ trace[i] = trace[j]) => trace[i] = "exec"
    /\ Cardinality({i \in 1..Len(trace) : trace[i] = "exec"}) <= Len(Candidates)

\* C28: when every external call returns, every request reaches the response
\* step, passing through each stage at most once and never returning to an
\* earlier stage.
C28_LinearAndTerminates ==
    /\ []StagesInOrder
    /\ <>(pc = "done" /\ Len(bodies) = 1)


\* the unit has a scratch file: TempFile returned and os.Remove has not run
HoldsScratch(i) ==
    /\ units[i].name # NoFile
    /\ \/ units[i].pc \in {"tmp_write", "run", "ran"}
       \/ variant # "prefix" /\ units[i].pc \in {"audit", "respond", "returning"}

\* the unit has written its code and the interpreter has yet to run it
AwaitsRun(i) == units[i].route \in {"py", "freeform"} /\ units[i].pc = "run"

\* the unit ran generated code
RanGenerated(i) ==
    /\ units[i].route \in {"py", "freeform"}
    /\ units[i].ran # NoProgram

\* C24: under every interleaving of concurrently handled generation requests
\* no two requests hold the same scratch file name at once, so no request
\* executes code written by another and no cleanup removes a file that
\* another request has yet to execute.
C24_ScratchNamesDisjoint ==
    /\ \A i, j \in DOMAIN units :
         (i # j /\ HoldsScratch(i) /\ HoldsScratch(j)) => units[i].name # units[j].name
    /\ \A i \in DOMAIN units :
         /\ HoldsScratch(i) =>
              Cardinality({f \in files : f.name = units[i].name}) = 1
         /\ AwaitsRun(i) =>
              ProgramAt(files, units[i].name) = generatedCode(units[i].body)
         /\ RanGenerated(i) => units[i].ran = generatedCode(units[i].body)

\* one request has executed its own code and removed its file while the
\* other, which drew the other name, still waits for the interpreter
C24_Witness ==
    /\ DOMAIN units = Units
    /\ units[1].pc = "done"
    /\ units[1].ran = "code1"
    /\ units[1].name = "hartley_generated_1.py"
    /\ AwaitsRun(2)
    /\ units[2].name = "hartley_generated_2.py"
    /\ files = {[name |-> "hartley_generated_2.py", text |-> "code3"]}

\* what the unit answers when handled alone, from its request and from what
\* the generation service and the interpreter returned for it
OwnProgram(i) ==
    IF units[i].route = "registered"
    THEN FirstEntry(units[i].req.Action).Script
    ELSE generatedCode(units[i].body)

\* what the last interpreter tried can have returned for the unit's program
OwnOutputs(i) ==
    IF units[i].err = NoError THEN {Prints(OwnProgram(i))}
    ELSE {<<>>, <<Sentinel, "\n">>, Prints(OwnProgram(i))}

OwnResult(i) == unitResult(units[i])

\* C25: handling requests never writes the registered-action table or the
\* configuration, and what a request is answered depends only on the request
\* and on what the generation service and the interpreter return for it,
\* whatever other requests are handled before or at the same time.
C25_NoSharedWrites ==
    /\ [][cfgVars' = cfgVars]_vars
    /\ [](\A i \in DOMAIN units :
            /\ units[i].route # "none" =>
                 units[i].route = classify(units[i].req.Action).route
            /\ units[i].ran # NoProgram => units[i].ran = OwnProgram(i)
            /\ (units[i].pc \in {"audit", "respond", "returning", "done"}
                /\ units[i].args # <<>>)
                 => /\ units[i].out \in OwnOutputs(i)
                    /\ units[i].resp = OwnResult(i)
            /\ units[i].pc = "done" => units[i].sent = <<jsonEncode(units[i].resp)>>)

\* two requests for the same query, answered differently because the
\* generation service returned different code for them
C25_Witness ==
    /\ DOMAIN units = Units
    /\ units[1].pc = "done"
    /\ units[2].pc = "done"
    /\ units[1].req = units[2].req
    /\ units[1].ran = "code1"
    /\ units[2].ran = "code3"
    /\ units[1].err = NoError
    /\ units[2].err = NoError
    /\ units[1].sent # units[2].sent
    /\ Len(audits) = 2


\* runPython returned an error on a local path and the branch has answered it
LocalRunFailed ==
    /\ ResultBuilt
    /\ route \in {"registered", "sh"}
    /\ rpErr.kind # "nil"

\* C31: on the registered-action and shell-directive paths, when runPython
\* returns an error nothing is extracted from the output, even when the output
\* is a JSON object: the result has exactly the keys error and output, the
\* error names the failed execution and the output is the whole combined
\* output that runPython returned.
C31_RunErrorSkipsExtraction ==
    LocalRunFailed =>
        /\ ~resp.isNil
        /\ DOMAIN resp.kv = {"\"error\"", "\"output\""}
        /\ resp.kv["\"error\""] =
             <<(IF route = "sh" THEN "\"Error executing shell command: %v\""
                ELSE "\"Error executing action: %v\""),
               rpErr.kind, rpErr.proc>>
        /\ resp.kv["\"output\""] = <<"string(">> \o rpLog[Len(rpLog)].out \o <<")">>
        /\ pc = "done" => bodies = <<jsonEncode(resp)>>

\* a registered script printed {"result": 42} and exited non-zero
C31_Witness ==
    /\ pc = "done"
    /\ route = "registered"
    /\ rpErr.kind = "ExitError"
    /\ rpOut = <<"{", "\"result\"", ":", " ", "42", "}", "\n">>
    /\ HasKey(resp, "\"error\"")
    /\ ~HasKey(resp, "\"result\"")


\* the attempts of runPython in which an interpreter started the script
ScriptRuns == {i \in 1..Len(rpLog) : rpLog[i].kind = "ran"}

\* C32: within one request the script begins executing in at most one
\* interpreter process: a script that has run under one candidate is never
\* run again under the next.
C32_ScriptRunsOnce ==
    /\ Cardinality(ScriptRuns) <= 1
    /\ \A i \in ScriptRuns : i = Len(rpLog) /\ pc # "run"


\* the request was turned away by the method check or by the decoding
Rejected == pc # "idle" /\ ~PassedChecks

\* C33: a request rejected for its method or for an undecodable body has no
\* side effects: no interpreter process is started, the generation service is
\* not called, no scratch file is created and no audit write is attempted.
C33_RejectedHasNoEffects ==
    Rejected =>
        /\ pc = "done"
        /\ rpLog = <<>>
        /\ remoteCalls = 0
        /\ files = {}
        /\ tmpName = NoFile
        /\ audits = <<>>
        /\ trace = <<"respond">>
        /\ Len(bodies) = 1
        /\ ~fatal

C33_Witness ==
    /\ pc = "done"
    /\ req.Method = "POST"
    /\ ~req.BodyOK
    /\ status = 400
    /\ bodies = <<jsonEncode(ErrMap(<<"\"Invalid JSON\"">>))>>
    /\ audits = <<>>


\* the places of a stage in the trace of the request
Places(stage) == {i \in 1..Len(trace) : trace[i] = stage}

\* every occurrence of stage a comes before every occurrence of stage b
Before(a, b) == \A i \in Places(a), j \in Places(b) : i < j

\* the interpreter starts on generated code only once the envelope has been
\* decoded and found non-empty and the code is written and the file closed
RunAfterWrite ==
    (route \in {"py", "freeform"} /\ (pc = "run" \/ Went("exec"))) =>
        /\ Went("read") /\ Went("write")
        /\ Before("post", "read") /\ Before("read", "create")
        /\ Before("create", "write") /\ Before("write", "exec")
        /\ gbody.decodable
        /\ Len(gbody.candidates) > 0
        /\ Len(gbody.candidates[1].parts) > 0
        /\ pc = "run" =>
             /\ \E f \in files : f.name = tmpName
             /\ \A f \in files :
                  f.name = tmpName => f.text = gbody.candidates[1].parts[1]

\* the audit write is attempted with the final response object and before
\* the response is written
AuditBetween ==
    Went("audit") =>
        /\ Len(audits) = 1
        /\ audits[1].response = jsonMarshal(resp)
        /\ Before("extract", "audit")
        /\ Before("audit", "respond")
        /\ pc = "done" => bodies = <<jsonEncode(resp)>>

\* C34 as stated: the interpreter starts on generated code after the code is
\* written, the audit write lies between the fixing of the response object
\* and the writing of the response, and the scratch file is removed after the
\* interpreter has exited and before the response is written.
C34_StageOrder ==
    /\ RunAfterWrite
    /\ AuditBetween
    /\ Went("remove") =>
         /\ Before("exec", "remove")
         /\ Before("remove", "respond")

\* C34, amended: as above, but the scratch file is removed by the deferred
\* call of the function that created it: in the prefix iteration when
\* handlePythonCommand or handleConversational returns, before the audit write
\* and the response; in the legacy, marker and main iterations when
\* actionHandler returns, after the response has been written.
C34_StageOrderDeferredRemove ==
    /\ RunAfterWrite
    /\ AuditBetween
    /\ Went("remove") =>
         /\ Cardinality(Places("remove")) = 1
         /\ Before("exec", "remove")
         /\ Before("create", "remove")
         /\ files = {}
         /\ IF variant = "prefix"
            THEN Before("remove", "audit") /\ Before("remove", "respond")
            ELSE /\ pc = "done"
                 /\ Places("remove") = {Len(trace)}
                 /\ Places("respond") = {Len(trace) - 1}
    /\ (pc = "done" /\ tmpName # NoFile) => Went("remove")

\* main iteration: the code ran, the response was written, then the file
\* was removed
C34_Witness ==
    /\ variant = "main"
    /\ pc = "done"
    /\ route = "freeform"
    /\ trace = <<"decode", "classify", "prompt", "post", "read", "create", "write",
                 "exec", "extract", "audit", "respond", "remove">>
    /\ rpLog[1].kind = "ran"
    /\ files = {}

=============================================================================
